---- MODULE Spec2Model ----
(***************************************************************************)
(* Astro plugin (renson-plugins): the configuration migration/validation   *)
(* pipeline of astro/configuration.py and the time-driven scheduler of     *)
(* astro/main.py (run loop, watchdog, live reconfiguration).               *)
(*                                                                         *)
(* Time is in seconds.  Python strings that the code parses (coordinates,  *)
(* ids, offsets) are tuples of one-character strings; values whose Python  *)
(* type varies (int / str / None) are tagged records.                      *)
(***************************************************************************)
EXTENDS Integers, Sequences, FiniteSets, TLC

VARIABLES
    \* ---- Astro object fields (astro/main.py __init__) ----
    config,             \* self._config: the raw document last handed to set_config
    parsed_config,      \* self._parsed_config
    latitude,           \* self._latitude
    longitude,          \* self._longitude
    group_actions,      \* self._group_actions: sun-location key -> list of actions
    bits,               \* self._bits: sun-location key -> list of actions
    enabled,            \* self._enabled
    last_request_date,  \* self._last_request_date (NoDate = None)
    execution_plan,     \* self._execution_plan: fire time -> list of entries
    sleeper,            \* self._sleeper (threading.Event): TRUE = set
    sleep_until,        \* self._sleep_until
    factory_config,     \* config_factory.config (ConfigurationFactory.config)
    persisted,          \* the document last written with write_config
    \* ---- environment ----
    clock,              \* wall clock, time.time() / datetime.now()
    pytz_ok,            \* whether `import pytz` succeeds in this installation
    n_advance,          \* number of times the clock was moved past a deadline
    outage,             \* how many of the coming solar-time requests fail
    ephemeris,          \* what the solar-time source answers for this site
    gateway,            \* how webinterface.do_basic_action answers each call
    \* ---- run() thread ----
    pc,                 \* position of the run loop
    now,                \* local `now` of the current iteration
    retries,            \* local `retries` of _build_execution_plan
    req,                \* the request in flight: coordinates sent, results received
    \* ---- _sleep_manager thread ----
    wd_pc,              \* "check" (evaluating the if) or "set" (about to call set())
    wd_due,             \* when its time.sleep(5) returns (kept only where time is
                        \* counted in seconds: 0 elsewhere)
    \* ---- set_config caller ----
    cfg_pc,             \* position inside set_config/_read_config ("idle" = no call)
    cfg_result,         \* outcome of the last finished call: "none" | "ok" | "error"
    n_reconfig,         \* number of set_config calls started
    \* ---- what the scheduler did (observation only) ----
    dispatched,         \* the dispatches of the latest scan
    fetches,            \* solar-time requests made by the latest plan build
    iter,               \* facts about the current loop iteration
    epoch,              \* number of reconfigurations completed so far
    plan_epoch,         \* value of epoch when the stored plan was built
    wake_pending,       \* a reconfiguration completed and no iteration began since
    history,            \* what the loop did since construction: the entries
                        \* dispatched, the days built, the requests counted by day
    \* ---- ConfigurationFactory.parse_configuration on its own ----
    in_doc,             \* the raw document handed to it
    out_version,        \* its local current_version (what the detection returned)
    out_migrate,        \* its local curr_config (what the migration returned)
    out_parse,          \* its outcome
    out_export,         \* what get_json_configuration then returned
    out_reparse,        \* the outcome of parse_configuration on that export
    \* ---- Coordinates.__str__ and Coordinates.from_string on their own ----
    c_pc,               \* "str": a value awaits str(); "from_string": a text awaits
                        \* from_string; "done"; "idle": neither is being followed
    c_value,            \* the Coordinates value handed to str()
    c_text,             \* the text handed to from_string
    c_parsed            \* what from_string returned or raised

\* The plugin's fields.
plugin_vars == << config, parsed_config, latitude, longitude, group_actions, bits,
                  enabled, last_request_date, execution_plan, sleeper, sleep_until,
                  factory_config, persisted >>

env_vars == << clock, pytz_ok, n_advance, outage, ephemeris, gateway >>

run_vars == << pc, now, retries, req >>

cfg_vars == << cfg_pc, cfg_result, n_reconfig >>

obs_vars == << dispatched, fetches, iter, epoch, plan_epoch, wake_pending, history >>

parse_vars == << in_doc, out_version, out_migrate, out_parse, out_export, out_reparse >>

coord_vars == << c_pc, c_value, c_text, c_parsed >>

vars == << plugin_vars, env_vars, run_vars, wd_pc, wd_due, cfg_vars, obs_vars,
           parse_vars, coord_vars >>

-----------------------------------------------------------------------------
(* Generic helpers *)

Max(a, b) == IF a >= b THEN a ELSE b

Abs(x) == IF x < 0 THEN -x ELSE x

Range(s) == { s[i] : i \in DOMAIN s }

RECURSIVE Pow10(_)
Pow10(n) == IF n = 0 THEN 1 ELSE 10 * Pow10(n - 1)

\* Tagged Python values: an int, a str (tuple of characters) or None.
IntV(n) == [t |-> "int", i |-> n, s |-> << >>]
StrV(s) == [t |-> "str", i |-> 0, s |-> s]
NoneV == [t |-> "none", i |-> 0, s |-> << >>]

\* Python truthiness of a tagged value (used by `x or 0`).
Truthy(v) ==
    CASE v.t = "int" -> v.i # 0
      [] v.t = "str" -> v.s # << >>
      [] OTHER -> FALSE

Digits == {"0", "1", "2", "3", "4", "5", "6", "7", "8", "9"}

DigitVal(c) ==
    CASE c = "0" -> 0 [] c = "1" -> 1 [] c = "2" -> 2 [] c = "3" -> 3 [] c = "4" -> 4
      [] c = "5" -> 5 [] c = "6" -> 6 [] c = "7" -> 7 [] c = "8" -> 8 [] c = "9" -> 9

AllDigits(s) == Len(s) >= 1 /\ \A k \in 1..Len(s) : s[k] \in Digits

RECURSIVE DigitsVal(_)
DigitsVal(s) ==
    IF s = << >> THEN 0
    ELSE 10 * DigitsVal(SubSeq(s, 1, Len(s) - 1)) + DigitVal(s[Len(s)])

RECURSIVE Strip(_)
Strip(s) ==
    IF s = << >> THEN s
    ELSE IF s[1] = " " THEN Strip(Tail(s))
    ELSE IF s[Len(s)] = " " THEN Strip(SubSeq(s, 1, Len(s) - 1))
    ELSE s

\* Python int(): identity on an int; on a str, optional surrounding blanks, an
\* optional sign and at least one digit, else ValueError; TypeError on None.
PyInt(v) ==
    CASE v.t = "int" -> [ok |-> TRUE, v |-> v.i, err |-> ""]
      [] v.t = "none" -> [ok |-> FALSE, v |-> 0, err |-> "TypeError"]
      [] OTHER ->
         LET body == Strip(v.s)
             signed == body # << >> /\ body[1] \in {"-", "+"}
             digs == IF signed THEN Tail(body) ELSE body
         IN  IF AllDigits(digs)
             THEN [ok |-> TRUE,
                   v |-> IF signed /\ body[1] = "-" THEN -DigitsVal(digs) ELSE DigitsVal(digs),
                   err |-> ""]
             ELSE [ok |-> FALSE, v |-> 0, err |-> "ValueError"]

-----------------------------------------------------------------------------
(* astro/configuration.py: enumerations and Coordinates *)

ConfigurationVersions == {"3.0", "2.0", "1.0"}

SunLocations ==
    {"solar noon", "sunset", "civil dawn", "nautical dawn", "astronomical dawn",
     "astronomical dusk", "nautical dusk", "civil dusk", "sunrise"}

ValidationJobActions == {"set", "clear"}

\* A float read from a decimal literal, kept exactly: m / 10^e, with no trailing
\* zero in m unless e = 0 (so equal numbers are equal records; -0.0 = 0.0).
RECURSIVE Dec(_, _)
Dec(m, e) == IF e > 0 /\ m % 10 = 0 THEN Dec(m \div 10, e - 1) ELSE [m |-> m, e |-> e]

CoordSeparators == {";", ",", "/"}

DecimalPoints == {".", ","}

\* t matches -?\d+[\.,]\d+ from its first to its last character.
NumberShape(t) ==
    LET body == IF t # << >> /\ t[1] = "-" THEN Tail(t) ELSE t
    IN  \E k \in 1..Len(body) :
           /\ body[k] \in DecimalPoints
           /\ AllDigits(SubSeq(body, 1, k - 1))
           /\ AllDigits(SubSeq(body, k + 1, Len(body)))

\* float() of a matched group once its ',' is replaced by '.'.
NumberValue(t) ==
    LET neg == t[1] = "-"
        body == IF neg THEN Tail(t) ELSE t
        k == CHOOSE j \in 1..Len(body) : body[j] \in DecimalPoints
        whole == DigitsVal(SubSeq(body, 1, k - 1))
        frac == SubSeq(body, k + 1, Len(body))
        mag == whole * Pow10(Len(frac)) + DigitsVal(frac)
    IN  Dec(IF neg THEN -mag ELSE mag, Len(frac))

\* The matches of a pattern without the two `.*?`: number, separator, number.
RegexMatchesMut(s) ==
    { m \in { << p - 1, p, p + 1 >> : p \in 2..(Len(s) - 1) } :
        /\ NumberShape(SubSeq(s, 1, m[1]))
        /\ s[m[2]] \in CoordSeparators
        /\ NumberShape(SubSeq(s, m[3], Len(s))) }

\* The ways ^(-?\d+[\.,]\d+).*?[;,/].*?(-?\d+[\.,]\d+)$ can match s: group 1 is
\* s[1..a], the separator is s[p], group 2 is s[q..Len(s)].
RegexMatches(s) ==
    UNION { UNION { { << a, p, q >> : q \in { x \in (p + 1)..Len(s) :
                                              NumberShape(SubSeq(s, x, Len(s))) } }
                    : p \in { x \in (a + 1)..Len(s) : s[x] \in CoordSeparators } }
            : a \in { x \in 1..Len(s) : NumberShape(SubSeq(s, 1, x)) } }

\* Match m is tried before match n by the backtracking engine: the greedy \d+ of
\* group 1 as long as possible, then each lazy .*? as short as possible.
Preferred(m, n) ==
    \/ m[1] > n[1]
    \/ m[1] = n[1] /\ m[2] < n[2]
    \/ m[1] = n[1] /\ m[2] = n[2] /\ m[3] <= n[3]

\* The match re.match returns among the possible ones.
RegexMatchAmong(ms) == CHOOSE m \in ms : \A n \in ms : Preferred(m, n)

RegexMatch(s) == RegexMatchAmong(RegexMatches(s))

Coordinates(lat, long) == [latitude |-> lat, longitude |-> long]

\* float(match.group(1)), float(match.group(2))
CoordinatesOfMatch(s, m) ==
    Coordinates(NumberValue(SubSeq(s, 1, m[1])), NumberValue(SubSeq(s, m[3], Len(s))))

\* The body of Coordinates.from_string, given the ways its regex can match.
FromMatches(coord_str, ms) ==
    IF coord_str = << >>
    THEN [ok |-> TRUE, err |-> "", v |-> Coordinates(Dec(0, 0), Dec(0, 0))]
    ELSE IF ms # {}
    THEN [ok |-> TRUE, err |-> "", v |-> CoordinatesOfMatch(coord_str, RegexMatchAmong(ms))]
    ELSE [ok |-> FALSE, err |-> "ValueError", v |-> Coordinates(Dec(0, 0), Dec(0, 0))]

\* Coordinates.from_string
FromString(coord_str) == FromMatches(coord_str, RegexMatches(coord_str))

\* Coordinates(): the dataclass with its default fields, both None.
NoCoordinates == Coordinates([m |-> 0, e |-> -1], [m |-> 0, e |-> -1])

DigitChar(n) == CHOOSE c \in Digits : DigitVal(c) = n

\* The decimal digits of a natural number, without leading zeros.
RECURSIVE NatText(_)
NatText(n) ==
    IF n < 10 THEN << DigitChar(n) >> ELSE NatText(n \div 10) \o << DigitChar(n % 10) >>

\* The last w decimal digits of n, zero-padded.
RECURSIVE FixedDigits(_, _)
FixedDigits(n, w) ==
    IF w = 0 THEN << >> ELSE FixedDigits(n \div 10, w - 1) \o << DigitChar(n % 10) >>

\* The precision of the format specification `.6f`.
Precision == 6

\* |x| in units of 10^-6, rounded to the nearest unit (a tie, which only a value
\* that is a multiple of 2^-7 can be, goes to the even one).
Millionths(x) ==
    IF x.e <= Precision THEN Abs(x.m) * Pow10(Precision - x.e)
    ELSE LET unit == Pow10(x.e - Precision)
             q == Abs(x.m) \div unit
             r == Abs(x.m) % unit
         IN  IF 2 * r > unit \/ (2 * r = unit /\ q % 2 = 1) THEN q + 1 ELSE q

\* A formatting that leaves the sign out.
FormatFixedMut(x) ==
    NatText(Millionths(x) \div Pow10(Precision)) \o << "." >>
        \o FixedDigits(Millionths(x) % Pow10(Precision), Precision)

\* f"{x:.6f}": the sign of a negative value, the integer part, a point, six decimals.
FormatFixed(x) ==
    (IF x.m < 0 THEN << "-" >> ELSE << >>)
        \o NatText(Millionths(x) \div Pow10(Precision)) \o << "." >>
        \o FixedDigits(Millionths(x) % Pow10(Precision), Precision)

\* Coordinates.__str__
Str(c) == FormatFixed(c.latitude) \o << ";" >> \o FormatFixed(c.longitude)

-----------------------------------------------------------------------------
(* astro/configuration.py: ConfigurationFactory *)

\* Python's dict.get(key, default) on a raw document; d.keys are the keys present.
Get(d, key, default) == IF key \in d.keys THEN d[key] ELSE default

GroupActionJob(id, loc, off) ==
    [group_action_id |-> id, sun_location |-> loc, offset |-> off]

ValidationJob(act, id, loc, off) ==
    [action |-> act, bit_id |-> id, sun_location |-> loc, offset |-> off]

Configuration(coords, gjobs, vjobs, ver) ==
    [coordinates |-> coords, group_action_jobs |-> gjobs, validation_jobs |-> vjobs,
     version |-> ver]

\* Stands for "no Configuration" (None) wherever a Configuration-shaped value is kept.
NoConfig == Configuration(Coordinates(Dec(0, 0), Dec(0, 0)), << >>, << >>, "none")

Fail(kind) == [ok |-> FALSE, err |-> kind, cfg |-> NoConfig]

Done(cfg) == [ok |-> TRUE, err |-> "", cfg |-> cfg]

\* A detection that takes either list key alone for the 2.0 shape.
DetermineVersionMut(d) ==
    IF "version" \in d.keys
    THEN IF d.version \in ConfigurationVersions
         THEN [ok |-> TRUE, err |-> "", v |-> d.version]
         ELSE [ok |-> FALSE, err |-> "ValueError", v |-> ""]
    ELSE IF "basic_configuration" \in d.keys \/ "advanced_configuration" \in d.keys
    THEN [ok |-> TRUE, err |-> "", v |-> "2.0"]
    ELSE [ok |-> TRUE, err |-> "", v |-> "1.0"]

\* ConfigurationFactory._determine_configuration_version
DetermineVersion(d) ==
    IF "version" \in d.keys
    THEN IF d.version \in ConfigurationVersions
         THEN [ok |-> TRUE, err |-> "", v |-> d.version]
         ELSE [ok |-> FALSE, err |-> "ValueError", v |-> ""]
    ELSE IF "basic_configuration" \in d.keys /\ "advanced_configuration" \in d.keys
    THEN [ok |-> TRUE, err |-> "", v |-> "2.0"]
    ELSE [ok |-> TRUE, err |-> "", v |-> "1.0"]

\* A reading that falls back on the text of the unset coordinates (0.0, 0.0).
CoordinatesTextMut(d) ==
    Get(d, "coordinates",
        << "0", ".", "0", "0", "0", "0", "0", "0", ";",
           "0", ".", "0", "0", "0", "0", "0", "0" >>)

\* `coordinates = config_data.get('coordinates')` followed by `if not coordinates`
CoordinatesText(d) == Get(d, "coordinates", << >>)

\* The (bit, start, stop, account_offset) table of _migrate_configuration_v1.
V1Roles(d) ==
    << << Get(d, "horizon_bit", -1), "sunrise", "sunset", FALSE >>,
       << Get(d, "civil_bit", -1), "civil dawn", "civil dusk", FALSE >>,
       << Get(d, "nautical_bit", -1), "nautical dawn", "nautical dusk", FALSE >>,
       << Get(d, "astronomical_bit", -1), "astronomical dawn", "astronomical dusk", FALSE >>,
       << Get(d, "bright_bit", -1), "sunrise", "sunset", TRUE >> >>

V1StartOffset(d, role) == IF role[4] THEN Get(d, "bright_offset", 0) ELSE 0

\* The stop offset without its sign change.
V1StopOffsetMut(d, role) == IF role[4] THEN Get(d, "bright_offset", 0) ELSE 0

V1StopOffset(d, role) == IF role[4] THEN -Get(d, "bright_offset", 0) ELSE 0

\* A test that takes bit 0 for "not in use".
V1RoleEnabledMut(role) == role[1] > 0

\* `if bit >= 0`
V1RoleEnabled(role) == role[1] >= 0

RECURSIVE V1ValidationJobs(_, _)
V1ValidationJobs(d, roles) ==
    IF roles = << >> THEN << >>
    ELSE LET role == Head(roles)
         IN  (IF V1RoleEnabled(role)
              THEN << ValidationJob("set", IntV(role[1]), role[2], V1StartOffset(d, role)),
                      ValidationJob("clear", IntV(role[1]), role[3], V1StopOffset(d, role)) >>
              ELSE << >>) \o V1ValidationJobs(d, Tail(roles))

\* A migration that emits no automation job.
V1GroupActionJobsMut(d, roles) == << >>

RECURSIVE V1GroupActionJobs(_, _)
V1GroupActionJobs(d, roles) ==
    IF roles = << >> THEN << >>
    ELSE LET role == Head(roles)
             id == IntV(Get(d, "group_action", -1))
         IN  (IF V1RoleEnabled(role)
              THEN << GroupActionJob(id, role[2], V1StartOffset(d, role)),
                      GroupActionJob(id, role[3], V1StopOffset(d, role)) >>
              ELSE << >>) \o V1GroupActionJobs(d, Tail(roles))

\* The body of _migrate_configuration_v1, given the detected version and the
\* outcome of Coordinates.from_string.
MigrateV1From(d, ver, coords) ==
        IF ~ver.ok \/ ver.v # "1.0" THEN Fail("ValueError")
        ELSE IF CoordinatesText(d) = << >> THEN Fail("ValueError")
        ELSE IF ~coords.ok THEN Fail(coords.err)
        ELSE Done(Configuration(coords.v, V1GroupActionJobs(d, V1Roles(d)),
                                V1ValidationJobs(d, V1Roles(d)), "3.0"))

\* ConfigurationFactory._migrate_configuration_v1
MigrateV1(d) == MigrateV1From(d, DetermineVersion(d), FromString(CoordinatesText(d)))

\* int() of the offset as it stands.
OffsetOfMut(job) == PyInt(job.offset)

\* int(job['offset'] or 0)
OffsetOf(job) == PyInt(IF Truthy(job.offset) THEN job.offset ELSE IntV(0))

BasicJobOk(job) == job.sun_location \in SunLocations /\ OffsetOf(job).ok

AdvancedJobOk(job) ==
    /\ job.action \in ValidationJobActions
    /\ job.sun_location \in SunLocations
    /\ OffsetOf(job).ok

\* The body shared by _migrate_configuration_v2 and _migrate_configuration_v3,
\* which differ only in the version they insist on, given the detected version and
\* the outcome of Coordinates.from_string.
MigrateListsFrom(d, want, ver, coords) ==
    LET basic == Get(d, "basic_configuration", << >>)
        advanced == Get(d, "advanced_configuration", << >>)
    IN  IF ~ver.ok \/ ver.v # want THEN Fail("ValueError")
        ELSE IF CoordinatesText(d) = << >> THEN Fail("ValueError")
        ELSE IF ~coords.ok THEN Fail(coords.err)
        ELSE IF \E k \in DOMAIN basic : ~BasicJobOk(basic[k]) THEN Fail("ValueError")
        ELSE IF \E k \in DOMAIN advanced : ~AdvancedJobOk(advanced[k]) THEN Fail("ValueError")
        ELSE Done(Configuration(
                coords.v,
                [k \in DOMAIN basic |->
                    GroupActionJob(basic[k].group_action_id, basic[k].sun_location,
                                   OffsetOf(basic[k]).v)],
                [k \in DOMAIN advanced |->
                    ValidationJob(advanced[k].action, advanced[k].bit_id,
                                  advanced[k].sun_location, OffsetOf(advanced[k]).v)],
                "3.0"))

MigrateLists(d, want) ==
    MigrateListsFrom(d, want, DetermineVersion(d), FromString(CoordinatesText(d)))

\* ConfigurationFactory._migrate_configuration_v2
MigrateV2(d) == MigrateLists(d, "2.0")

\* ConfigurationFactory._migrate_configuration_v3
MigrateV3(d) == MigrateLists(d, "3.0")

\* The id checks without the sign test.
VerifyIntMut(n) ==
        IF ~n.ok THEN [ok |-> FALSE, err |-> n.err, v |-> 0]
        ELSE [ok |-> TRUE, err |-> "", v |-> n.v]

\* The id checks of _verify_configuration on one id: a str is coerced with int(),
\* then the id must be >= 0.
VerifyInt(n) ==
        IF ~n.ok THEN [ok |-> FALSE, err |-> n.err, v |-> 0]
        ELSE IF n.v < 0 THEN [ok |-> FALSE, err |-> "ValueError", v |-> 0]
        ELSE [ok |-> TRUE, err |-> "", v |-> n.v]

\* int() of the id, then the sign test.
VerifyId(id) == VerifyInt(PyInt(id))

\* ConfigurationFactory._verify_configuration: raises, or leaves the ids as ints.
VerifyConfiguration(cfg) ==
    LET gj == cfg.group_action_jobs
        vj == cfg.validation_jobs
    IN  IF \E k \in DOMAIN gj : ~VerifyId(gj[k].group_action_id).ok
        THEN Fail((LET k == CHOOSE j \in DOMAIN gj :
                              /\ ~VerifyId(gj[j].group_action_id).ok
                              /\ \A i \in 1..(j - 1) : VerifyId(gj[i].group_action_id).ok
                   IN  VerifyId(gj[k].group_action_id).err))
        ELSE IF \E k \in DOMAIN vj :
                    ~VerifyId(vj[k].bit_id).ok \/ vj[k].sun_location \notin SunLocations
        THEN Fail((LET k == CHOOSE j \in DOMAIN vj :
                              /\ ~VerifyId(vj[j].bit_id).ok \/ vj[j].sun_location \notin SunLocations
                              /\ \A i \in 1..(j - 1) :
                                    VerifyId(vj[i].bit_id).ok /\ vj[i].sun_location \in SunLocations
                   IN  IF ~VerifyId(vj[k].bit_id).ok THEN VerifyId(vj[k].bit_id).err
                       ELSE "ValueError"))
        ELSE Done([cfg EXCEPT
                !.group_action_jobs =
                    [k \in DOMAIN gj |->
                        [gj[k] EXCEPT !.group_action_id = VerifyId(gj[k].group_action_id).v]],
                !.validation_jobs =
                    [k \in DOMAIN vj |->
                        [vj[k] EXCEPT !.bit_id = VerifyId(vj[k].bit_id).v]]])

\* A choice that hands a 2.0 document to the 3.0 migration.
MigrateAsMut(d, ver) ==
        IF ~ver.ok THEN Fail(ver.err)
        ELSE IF ver.v = "1.0" THEN MigrateV1(d)
        ELSE MigrateV3(d)

\* The migration step of parse_configuration, chosen by the detected version.
MigrateAs(d, ver) ==
        IF ~ver.ok THEN Fail(ver.err)
        ELSE IF ver.v = "1.0" THEN MigrateV1(d)
        ELSE IF ver.v = "2.0" THEN MigrateV2(d)
        ELSE MigrateV3(d)

Migrate(d) == MigrateAs(d, DetermineVersion(d))

\* A storing of the outcome that does not wait for the verification to pass.
StoredMut(old, out) == out.cfg

\* `self.config = curr_config` (and `self._parsed_config = ...` in the caller) is
\* reached only when no step of the parse raised.
Stored(old, out) == IF out.ok THEN out.cfg ELSE old

\* What follows the migration step: its exception, or _verify_configuration.
VerifyMigrated(m) == IF ~m.ok THEN m ELSE VerifyConfiguration(m.cfg)

\* ConfigurationFactory.parse_configuration: the Configuration returned (and stored
\* in self.config), or the exception raised.
ParseConfiguration(d) == VerifyMigrated(Migrate(d))

-----------------------------------------------------------------------------
(* astro/main.py: constants of the scheduler *)

Day == 86400

Minute == 60

DispatchWindow == 300

NextActionHorizon == 172800

WakeMargin == 5

DisabledWait == 30

\* One attempt more than the code makes.
RetriesMut == 5 + 1

Retries == 5

RetryDelay == 5

\* None, for a date (self._last_request_date) and for a converted timestamp.
NoDate == -1

NoTime == -1

\* None, for self._latitude / self._longitude before any coordinates were read.
NoCoordinate == [m |-> 0, e |-> -1]

Today(t) == (t \div Day) * Day

Tomorrow(t) == Today(t) + Day

-----------------------------------------------------------------------------
(* astro/main.py: the action index built by _read_config *)

\* Keys of self._group_actions are the enum's value (a str); keys of self._bits are
\* the enum member itself.  A key is << kind, token >>.
GroupActionKey(job) == << "str", job.sun_location >>

BitKey(job) == << "enum", job.sun_location >>

EmptyIndex == [k \in {} |-> << >>]

IndexGet(index, key) == IF key \in DOMAIN index THEN index[key] ELSE << >>

\* The dict the first loop of _read_config fills (setdefault + append, in job order).
GroupActionIndex(jobs) ==
    [key \in {GroupActionKey(jobs[k]) : k \in DOMAIN jobs} |->
        LET mine == SelectSeq(jobs, LAMBDA j : GroupActionKey(j) = key)
        IN  [k \in DOMAIN mine |->
                [group_action_id |-> mine[k].group_action_id, offset |-> mine[k].offset]]]

\* The dict the second loop of _read_config fills.
BitIndex(jobs) ==
    [key \in {BitKey(jobs[k]) : k \in DOMAIN jobs} |->
        LET mine == SelectSeq(jobs, LAMBDA j : BitKey(j) = key)
        IN  [k \in DOMAIN mine |->
                [bit_id |-> mine[k].bit_id, action |-> mine[k].action,
                 offset |-> mine[k].offset]]]

\* `self._group_actions = group_actions` sits inside the for loop: it runs only if
\* the configuration has at least one group-action job.
NewGroupActions(old, cfg) ==
    IF cfg.group_action_jobs = << >> THEN old ELSE GroupActionIndex(cfg.group_action_jobs)

\* `self._bits = bits`, likewise inside its loop.
NewBits(old, cfg) ==
    IF cfg.validation_jobs = << >> THEN old ELSE BitIndex(cfg.validation_jobs)

\* self._enabled = enabled and (self._group_actions or self._bits)
NewEnabled(pytz, ga, bi) == pytz /\ (DOMAIN ga # {} \/ DOMAIN bi # {})

-----------------------------------------------------------------------------
(* astro/main.py: _convert and the plan construction of _build_execution_plan *)

ApiFields ==
    {"solar_noon", "sunset", "civil_twilight_end", "nautical_twilight_end",
     "astronomical_twilight_end", "astronomical_twilight_begin",
     "nautical_twilight_begin", "civil_twilight_begin", "sunrise"}

\* field_map
FieldMap ==
    [loc \in SunLocations |->
        CASE loc = "solar noon" -> "solar_noon"
          [] loc = "sunset" -> "sunset"
          [] loc = "civil dusk" -> "civil_twilight_end"
          [] loc = "nautical dusk" -> "nautical_twilight_end"
          [] loc = "astronomical dusk" -> "astronomical_twilight_end"
          [] loc = "astronomical dawn" -> "astronomical_twilight_begin"
          [] loc = "nautical dawn" -> "nautical_twilight_begin"
          [] loc = "civil dawn" -> "civil_twilight_begin"
          [] loc = "sunrise" -> "sunrise"]

\* A value of data['results']: kind "time" is a well-formed timestamp t, "epoch" a
\* timestamp in 1970, "garbage" an unparseable string, "missing" an absent field.
TimeV(t) == [kind |-> "time", t |-> t]

OtherV(kind) == [kind |-> kind, t |-> 0]

\* Astro._convert
Convert(v) == IF v.kind = "time" THEN v.t ELSE NoTime

\* self._convert(data['results'].get(field_map.get(sun_location, 'x')))
EventDate(results, key) ==
    IF key[1] = "str" /\ key[2] \in DOMAIN FieldMap
    THEN Convert(results[FieldMap[key[2]]])
    ELSE NoTime

\* Astro._format_offset together with the '{0}{1}'.format(sun_location, ...) label
SourceLabel(key, offset) == [sun_location |-> key, offset |-> offset]

BitEntry(key, a) ==
    [task |-> "bit", source |-> SourceLabel(key, a.offset),
     data |-> [action |-> a.action, bit_id |-> a.bit_id]]

GroupActionEntry(key, a) ==
    [task |-> "group_action", source |-> SourceLabel(key, a.offset),
     data |-> [group_action_id |-> a.group_action_id]]

FireTime(date, offset) == date + offset * Minute

\* A test that also drops the entry whose fire time is `now` itself.
AlreadyPassedMut(entry_date, t) == entry_date <= t

\* `if entry_date < now: continue`
AlreadyPassed(entry_date, t) == entry_date < t

\* What one pass of the `for sun_location in ...` body appends, in order:
\* the location's bit entries, then its group-action entries.
LocationEntries(key, t, results, ga, bi) ==
    LET date == EventDate(results, key)
        bs == IndexGet(bi, key)
        gs == IndexGet(ga, key)
        bitPart == [k \in DOMAIN bs |->
                       [date |-> FireTime(date, bs[k].offset), entry |-> BitEntry(key, bs[k])]]
        gaPart == [k \in DOMAIN gs |->
                       [date |-> FireTime(date, gs[k].offset),
                        entry |-> GroupActionEntry(key, gs[k])]]
    IN  IF (gs = << >> /\ bs = << >>) \/ date = NoTime THEN << >>
        ELSE SelectSeq(bitPart \o gaPart, LAMBDA e : ~AlreadyPassed(e.date, t))

\* A loop that stops at the first sun location without a date, instead of going
\* on to the next location.
RECURSIVE PlanAppendsMut(_, _, _, _, _)
PlanAppendsMut(order, t, results, ga, bi) ==
    IF order = << >> THEN << >>
    ELSE IF EventDate(results, Head(order)) = NoTime THEN << >>
    ELSE LocationEntries(Head(order), t, results, ga, bi)
            \o PlanAppendsMut(Tail(order), t, results, ga, bi)

\* The appends of the whole `for sun_location in ...` loop, in order.
RECURSIVE PlanAppends(_, _, _, _, _)
PlanAppends(order, t, results, ga, bi) ==
    IF order = << >> THEN << >>
    ELSE LocationEntries(Head(order), t, results, ga, bi)
            \o PlanAppends(Tail(order), t, results, ga, bi)

\* The execution_plan dict of one successful attempt; `order` is the order in which
\* the set of sun locations happens to be iterated.
BuildPlan(order, t, results, ga, bi) ==
    LET apps == PlanAppends(order, t, results, ga, bi)
    IN  [d \in {apps[k].date : k \in DOMAIN apps} |->
            LET mine == SelectSeq(apps, LAMBDA e : e.date = d)
            IN  [k \in DOMAIN mine |-> mine[k].entry]]

\* The iteration orders of set(self._group_actions.keys()) | set(self._bits.keys()).
IterationOrders(ga, bi) ==
    LET keys == DOMAIN ga \cup DOMAIN bi
        n == Cardinality(keys)
    IN  { o \in [1..n -> keys] : \A i, j \in 1..n : o[i] = o[j] => i = j }

EmptyPlan == [d \in {} |-> << >>]

\* A store that keeps the fire times of the old plan the new one does not have.
StorePlanMut(old, new) ==
    [d \in DOMAIN old \cup DOMAIN new |-> IF d \in DOMAIN new THEN new[d] ELSE old[d]]

\* self._execution_plan = execution_plan (line 347) and self._execution_plan = {}
\* (line 351): the attribute is rebound to the new dict, the old one is dropped.
StorePlan(old, new) == new

-----------------------------------------------------------------------------
(* astro/main.py: the scan of run() *)

\* A window that leaves out its two ends.
InWindowMut(date, t) == Abs(date - t) < DispatchWindow

\* `delta > timedelta(minutes=5)` is the test for skipping an entry.
InWindow(date, t) == ~(Abs(date - t) > DispatchWindow)

\* Every date that is not more than 5 minutes ahead, however long ago it was.
DueDatesMut(plan, t) == { d \in DOMAIN plan : d - t <= DispatchWindow }

DueDates(plan, t) == { d \in DOMAIN plan : InWindow(d, t) }

\* The nearest date outside the window, before or after `now`.
NextActionDateMut(plan, t) ==
    LET cands == { d \in DOMAIN plan :
                     ~InWindow(d, t) /\ Abs(d - t) < NextActionHorizon }
    IN  IF cands = {} THEN Tomorrow(t)
        ELSE CHOOSE d \in cands : \A x \in cands : Abs(d - t) <= Abs(x - t)

\* next_action_date: the nearest future date outside the window, if nearer than the
\* initial next_action_delta of two days; else tomorrow.
NextActionDate(plan, t) ==
    LET cands == { d \in DOMAIN plan :
                     ~InWindow(d, t) /\ d > t /\ Abs(d - t) < NextActionHorizon }
    IN  IF cands = {} THEN Tomorrow(t)
        ELSE CHOOSE d \in cands : \A x \in cands : d <= x

\* The arguments of the do_basic_action call made for a plan entry: action type 2
\* for an automation, 237 / 238 to set / clear a validation bit.
ActionType(entry) ==
    IF entry.task = "group_action" THEN 2
    ELSE IF entry.data.action = "set" THEN 237 ELSE 238

ActionNumber(entry) ==
    IF entry.task = "group_action" THEN entry.data.group_action_id
    ELSE entry.data.bit_id

\* What one call comes to: "success"; "refused", the reply's `success` is false and
\* the code raises RuntimeError itself; "raised", the call or json.loads raises.
DoBasicAction(gw, entry) ==
    LET call == << ActionType(entry), ActionNumber(entry) >>
    IN  IF call \in gw.raising THEN "raised"
        ELSE IF call \in gw.refusing THEN "refused"
        ELSE "success"

\* A loop over the list that the first failed call would end.
EntriesRunMut(list, gw) ==
    { k \in DOMAIN list :
        \A j \in 1..(k - 1) : DoBasicAction(gw, list[j]) = "success" }

\* The positions of one date's list that `for entry in plan` reaches: each call sits
\* in its own try / except Exception, so a failure is logged and the loop goes on.
EntriesRun(list, gw) == DOMAIN list

\* The do_basic_action calls of one scan: one per entry of every date in `dates`
\* (pos is the entry's position in its date's list), each with what it came to.
\* The dates are visited in the plan dict's own order, which this set does not
\* record.
DispatchRecords(dates, plan, t, gw) ==
    UNION { { [date |-> d, pos |-> k, entry |-> plan[d][k], at |-> t,
               result |-> DoBasicAction(gw, plan[d][k])] :
                k \in EntriesRun(plan[d], gw) } : d \in dates }

\* A scan that leaves the dates it handled in the plan.
PopDatesMut(plan, dates) == plan

\* self._execution_plan.pop(date, None) for every date handled
PopDates(plan, dates) == [d \in DOMAIN plan \ dates |-> plan[d]]

\* sleep = (target - now).total_seconds(); self._sleep(time.time() + sleep + 5)
WakeTime(clk, target, t) == clk + (target - t) + WakeMargin

-----------------------------------------------------------------------------
(* Inputs: raw documents, solar-time responses, and the bounds of the model *)

MaxReconfigs == 1

MaxAdvance == 2

\* How long after its deadline a late wake comes.
Late == 400

\* The clock at construction: 23:40 of day 0.
StartClocks == {85200}

AllKeys ==
    {"version", "coordinates", "basic_configuration", "advanced_configuration",
     "horizon_bit", "civil_bit", "nautical_bit", "astronomical_bit", "bright_bit",
     "bright_offset", "group_action"}

\* A raw document: `keys` are the keys present, the other fields their values.
Doc(keys, version, coords, basic, advanced, bitvals, bright_offset, group_action) ==
    [keys |-> keys, version |-> version, coordinates |-> coords,
     basic_configuration |-> basic, advanced_configuration |-> advanced,
     horizon_bit |-> bitvals[1], civil_bit |-> bitvals[2], nautical_bit |-> bitvals[3],
     astronomical_bit |-> bitvals[4], bright_bit |-> bitvals[5],
     bright_offset |-> bright_offset, group_action |-> group_action]

ListKeys == {"version", "coordinates", "basic_configuration", "advanced_configuration"}

V1Keys == AllKeys \ {"version", "basic_configuration", "advanced_configuration"}

NoBits == << -1, -1, -1, -1, -1 >>

DocV3(coords, basic, advanced) == Doc(ListKeys, "3.0", coords, basic, advanced, NoBits, 0, -1)

DocV2(coords, basic, advanced) ==
    Doc(ListKeys \ {"version"}, "", coords, basic, advanced, NoBits, 0, -1)

DocV1(coords, bitvals, bright_offset, group_action) ==
    Doc(V1Keys, "", coords, << >>, << >>, bitvals, bright_offset, group_action)

BasicItem(id, loc, off) == [group_action_id |-> id, sun_location |-> loc, offset |-> off]

AdvancedItem(act, id, loc, off) ==
    [action |-> act, bit_id |-> id, sun_location |-> loc, offset |-> off]

\* str(Coordinates(0.0, 0.0)): "0.000000;0.000000"
CoordsZero ==
    << "0", ".", "0", "0", "0", "0", "0", "0", ";",
       "0", ".", "0", "0", "0", "0", "0", "0" >>

CoordsGhent == << "5", "1", ".", "0", "6", ";", "3", ".", "7" >>

CoordsBad == << "5", "1", ";", "3" >>

\* The default document (get_default_configuration): no jobs.
DocEmpty == DocV3(CoordsZero, << >>, << >>)

\* Automations around sunrise and sunset, one validation bit at sunrise.
DocMixed ==
    DocV3(CoordsGhent,
          << BasicItem(IntV(3), "sunrise", IntV(0)),
             BasicItem(StrV(<< "5" >>), "sunrise", StrV(<< "4" >>)),
             BasicItem(IntV(3), "sunset", IntV(15)),
             BasicItem(IntV(6), "sunset", StrV(<< "-", "2", "0" >>)) >>,
          << AdvancedItem("set", IntV(7), "sunrise", NoneV) >>)

\* Validation bits only, in the 2.0 shape.
DocBitsOnly ==
    DocV2(CoordsGhent, << >>,
          << AdvancedItem("set", IntV(7), "sunrise", IntV(4)),
             AdvancedItem("clear", StrV(<< "7" >>), "sunset", StrV(<< >>)) >>)

\* A document that fails validation.
DocNegativeId == DocV3(CoordsGhent, << BasicItem(IntV(-1), "sunrise", IntV(0)) >>, << >>)

\* The documents set_config is called with.
ReconfigDocs == {DocEmpty, DocMixed, DocNegativeId}

\* The documents the plugin may have been constructed with (read_config).
InitDocs == {DocEmpty, DocMixed}

\* Times of day the solar-time source reports (seconds after the requested date's
\* midnight): sunrise 23:50:00 and sunset 23:40:06, everything else undefined.
EphemerisA ==
    [f \in ApiFields |->
        CASE f = "sunrise" -> TimeV(85800)
          [] f = "sunset" -> TimeV(85206)
          [] f = "solar_noon" -> OtherV("garbage")
          [] f = "civil_twilight_begin" -> OtherV("missing")
          [] OTHER -> OtherV("epoch")]

\* The same site on a day on which sunrise is undefined.
EphemerisB == [EphemerisA EXCEPT !["sunrise"] = OtherV("epoch")]

Ephemerides == {EphemerisA, EphemerisB}

\* How many of the coming requests to the solar-time source fail: none, the next
\* one, or more than one plan build attempts.
Outages == {0, 1, Retries + 1}

\* data['results'] for a request about the date starting at `date`.
Results(eph, date) ==
    [f \in ApiFields |->
        IF eph[f].kind = "time" THEN TimeV(date + eph[f].t) ELSE eph[f]]

\* Ways an attempt fails: exception in requests.get, status_code != 200,
\* data['status'] != 'OK', malformed payload (req.json() or data['results'] raises).
FailureKinds == {"transport", "non200", "notOK", "malformed"}

-----------------------------------------------------------------------------
(* State after construction (Astro.__init__, which ends with _read_config()) *)

NoRequest == [latitude |-> NoCoordinate, longitude |-> NoCoordinate,
              results |-> [f \in ApiFields |-> OtherV("missing")]]

NoIteration == [first |-> FALSE, built |-> FALSE, exhausted |-> FALSE,
                scanned |-> FALSE, epoch |-> 0, no_jobs |-> FALSE]

NoOutcome == [ok |-> FALSE, err |-> "not parsed", cfg |-> NoConfig]

\* Nothing was dispatched, built or requested yet.  `fired` holds the (fire time,
\* entry) pairs dispatched so far and `refired` those dispatched again by a later
\* scan; `built` the days a plan build was started for and `rebuilt` those it was
\* started for again; `asked` counts the requests that name the latest date asked
\* about, `made` those made on the latest wall-clock day a request was made on.
NoHistory ==
    [fired |-> {}, refired |-> {}, built |-> {}, rebuilt |-> {},
     asked |-> [date |-> NoDate, n |-> 0], made |-> [date |-> NoDate, n |-> 0]]

\* The count of one more request on day d.
Counted(count, d) ==
    IF count.date = d THEN [count EXCEPT !.n = @ + 1] ELSE [date |-> d, n |-> 1]

\* The (fire time, entry) pairs of a scan's do_basic_action calls.
Pairs(records) == { << r.date, r.entry >> : r \in records }

\* The collaborator answers every call with success.
GatewayOk == [refusing |-> {}, raising |-> {}]

\* It refuses to run automation 3 and raises when asked for automation 5.
GatewayMixed == [refusing |-> { << 2, 3 >> }, raising |-> { << 2, 5 >> }]

\* It refuses automation 3 only.
GatewayRefusing == [refusing |-> { << 2, 3 >> }, raising |-> {}]

\* It is unreachable: every call raises.
GatewayDown ==
    [refusing |-> {},
     raising |-> { << ty, n >> : ty \in {2, 237, 238}, n \in 0..9 }]

\* get_json_configuration has not returned: a document without any key.
NoExport == Doc({}, "", << >>, << >>, << >>, NoBits, 0, -1)

\* An export that leaves the validation jobs out.
GetJsonConfigurationMut(cfg) ==
    Doc(ListKeys, cfg.version, Str(cfg.coordinates),
        [k \in DOMAIN cfg.group_action_jobs |->
            BasicItem(IntV(cfg.group_action_jobs[k].group_action_id),
                      cfg.group_action_jobs[k].sun_location,
                      IntV(cfg.group_action_jobs[k].offset))],
        << >>, NoBits, 0, -1)

\* ConfigurationFactory.get_json_configuration: the coordinates as str() writes
\* them, every job with its fields and the enums by value, and the version.
GetJsonConfiguration(cfg) ==
    Doc(ListKeys, cfg.version, Str(cfg.coordinates),
        [k \in DOMAIN cfg.group_action_jobs |->
            BasicItem(IntV(cfg.group_action_jobs[k].group_action_id),
                      cfg.group_action_jobs[k].sun_location,
                      IntV(cfg.group_action_jobs[k].offset))],
        [k \in DOMAIN cfg.validation_jobs |->
            AdvancedItem(cfg.validation_jobs[k].action,
                         IntV(cfg.validation_jobs[k].bit_id),
                         cfg.validation_jobs[k].sun_location,
                         IntV(cfg.validation_jobs[k].offset))],
        NoBits, 0, -1)

\* parse_configuration has not assigned current_version yet.
NoVersion == [ok |-> FALSE, err |-> "not parsed", v |-> ""]

\* No call of parse_configuration is being followed.
ParseIdle ==
    /\ out_version = NoVersion
    /\ out_migrate = NoOutcome
    /\ out_parse = NoOutcome
    /\ out_export = NoExport
    /\ out_reparse = NoOutcome

\* Time is not counted in seconds: the watchdog's sleeps are not followed.
Untimed == wd_due = 0

\* from_string has not returned.
NoParsed == [ok |-> FALSE, err |-> "not called", v |-> NoCoordinates]

\* Neither str() nor from_string is being followed.
CoordsIdle ==
    c_pc = "idle" /\ c_value = NoCoordinates /\ c_text = << >> /\ c_parsed = NoParsed

\* The fields after __init__, cfg being the Configuration parsed from d.
ConstructedWith(cfg, d, lib, t, o, eph) ==
        LET ga == IF lib THEN NewGroupActions(EmptyIndex, cfg) ELSE EmptyIndex
            bi == IF lib THEN NewBits(EmptyIndex, cfg) ELSE EmptyIndex
        IN  /\ config = d
            /\ persisted = d
            /\ parsed_config = cfg
            /\ factory_config = cfg
            /\ pytz_ok = lib
            /\ latitude = IF lib THEN cfg.coordinates.latitude ELSE NoCoordinate
            /\ longitude = IF lib THEN cfg.coordinates.longitude ELSE NoCoordinate
            /\ group_actions = ga
            /\ bits = bi
            /\ enabled = NewEnabled(lib, ga, bi)
            /\ last_request_date = NoDate
            /\ execution_plan = EmptyPlan
            /\ sleeper = TRUE
            /\ sleep_until = 0
            /\ clock = t
            /\ n_advance = 0
            /\ outage = o
            /\ ephemeris = eph
            /\ pc = "top"
            /\ now = t
            /\ retries = 0
            /\ req = NoRequest
            /\ wd_pc = "check"
            /\ cfg_pc = "idle"
            /\ cfg_result = "none"
            /\ n_reconfig = 0
            /\ dispatched = {}
            /\ fetches = 0
            /\ iter = NoIteration
            /\ epoch = 0
            /\ plan_epoch = 0
            /\ wake_pending = FALSE
            /\ history = NoHistory

\* The plugin constructed from document d, with the library present or not, at
\* clock t, in an environment with outage o and ephemeris eph.
Constructed(d, lib, t, o, eph) ==
    ConstructedWith(ParseConfiguration(d).cfg, d, lib, t, o, eph)

SchedInit ==
    /\ \E d \in InitDocs, lib \in BOOLEAN, t \in StartClocks, o \in Outages,
          eph \in Ephemerides : Constructed(d, lib, t, o, eph)
    /\ gateway = GatewayMixed

Init == SchedInit /\ in_doc = DocEmpty /\ ParseIdle /\ CoordsIdle /\ Untimed

-----------------------------------------------------------------------------
(* The run() thread.  A step that reads and writes only what this thread owns    *)
(* (now, retries, the plan) is merged with the neighbouring step that touches     *)
(* shared state: no other thread can tell the difference.                         *)

\* _sleep line 201, self._sleep_until = timestamp; the thread goes on to line 202.
Sleep(timestamp) ==
    /\ sleep_until' = timestamp
    /\ pc' = "clear"

\* Lines 239-284.  An empty plan suspends the loop until tomorrow.  Otherwise every
\* date in the window is dispatched (whatever each do_basic_action call returns or
\* raises: that is caught and logged) and popped, and the nearest later date, or
\* tomorrow, gives the next wake.
ScanOrSuspend ==
    /\ IF DOMAIN execution_plan = {}
       THEN /\ Sleep(WakeTime(clock, Tomorrow(now), now))
            /\ dispatched' = {}
            /\ UNCHANGED execution_plan
       ELSE LET due == DueDates(execution_plan, now)
            IN  /\ dispatched' = DispatchRecords(due, execution_plan, now, gateway)
                /\ execution_plan' = PopDates(execution_plan, due)
                /\ Sleep(WakeTime(clock, NextActionDate(execution_plan, now), now))
    /\ iter' = [iter EXCEPT !.scanned = TRUE]
    /\ history' = [history EXCEPT !.fired = @ \cup Pairs(dispatched'),
                                  !.refired = @ \cup (Pairs(dispatched') \cap history.fired)]

\* Lines 222-232: the import at the top of the loop body, the enabled test (when
\* disabled: _sleep(time.time() + 30)), and the computation of now.
RunTop ==
    /\ pc = "top"
    /\ IF ~pytz_ok
       THEN \* `from pytz import reference` raises ImportError out of run()
            /\ pc' = "dead"
            /\ UNCHANGED << now, sleep_until >>
       ELSE IF ~enabled
       THEN /\ Sleep(clock + DisabledWait)
            /\ UNCHANGED now
       ELSE /\ now' = clock
            /\ pc' = "check_day"
            /\ UNCHANGED sleep_until
    /\ iter' = [first |-> wake_pending, built |-> FALSE, exhausted |-> FALSE,
                scanned |-> FALSE, epoch |-> epoch,
                no_jobs |-> (cfg_pc = "idle" /\ parsed_config.group_action_jobs = << >>
                                /\ parsed_config.validation_jobs = << >>)]
    /\ wake_pending' = FALSE
    /\ UNCHANGED << config, parsed_config, latitude, longitude, group_actions, bits,
                    enabled, last_request_date, execution_plan, sleeper,
                    factory_config, persisted, env_vars, retries, req, wd_pc, cfg_vars,
                    dispatched, fetches, epoch, plan_epoch, history, parse_vars,
                    coord_vars, wd_due >>

\* A test that finds every day new.
DayChangedMut(today, marker) == TRUE

\* Line 234: today != self._last_request_date
DayChanged(today, marker) == today # marker

\* Line 234: if today != self._last_request_date; when equal, lines 239-284 follow.
RunCheckDay ==
    /\ pc = "check_day"
    /\ IF DayChanged(Today(now), last_request_date)
       THEN /\ pc' = "mark"
            /\ UNCHANGED << execution_plan, sleep_until, dispatched, iter, history >>
       ELSE ScanOrSuspend
    /\ UNCHANGED << config, parsed_config, latitude, longitude, group_actions, bits,
                    enabled, last_request_date, sleeper, factory_config, persisted,
                    env_vars, now, retries, req, wd_pc, cfg_vars, fetches, epoch,
                    plan_epoch, wake_pending, parse_vars,
                    coord_vars, wd_due >>

\* Line 235, and the entry of _build_execution_plan (retries = 5).
RunMark ==
    /\ pc = "mark"
    /\ last_request_date' = Today(now)
    /\ retries' = Retries
    /\ fetches' = 0
    /\ iter' = [iter EXCEPT !.built = TRUE]
    /\ history' = [history EXCEPT !.built = @ \cup {Today(now)},
                                  !.rebuilt = @ \cup ({Today(now)} \cap history.built)]
    /\ pc' = "request"
    /\ UNCHANGED << config, parsed_config, latitude, longitude, group_actions, bits,
                    enabled, execution_plan, sleeper, sleep_until, factory_config,
                    persisted, env_vars, now, req, wd_pc, cfg_vars, dispatched, epoch,
                    plan_epoch, wake_pending, parse_vars,
                    coord_vars, wd_due >>

\* An attempt loop that a success does not end.
AfterSuccessMut(left) == IF left > 1 THEN "request" ELSE "print"

\* Where the attempt loop goes after a successful attempt: `break` (line 348).
AfterSuccess(left) == "print"

\* Where the attempt loop goes after a failed attempt (`while retries > 0`).
AfterFailure(left) == IF left > 0 THEN "request" ELSE "print"

\* Lines 293-303 and 349-353: one attempt up to the response.  The request carries
\* self._latitude and self._longitude; it fails (the plan is emptied and the thread
\* sleeps 5 s), or returns the day's results.
RunRequest ==
    /\ pc = "request"
    /\ retries > 0
    /\ fetches' = fetches + 1
    /\ history' = [history EXCEPT !.asked = Counted(@, Today(now)),
                                  !.made = Counted(@, Today(clock))]
    /\ IF outage > 0
       THEN \E kind \in FailureKinds :
            /\ outage' = outage - 1
            /\ retries' = retries - 1
            /\ execution_plan' = StorePlan(execution_plan, EmptyPlan)
            /\ plan_epoch' = epoch
            /\ clock' = clock + RetryDelay
            /\ pc' = AfterFailure(retries')
            /\ iter' = [iter EXCEPT !.exhausted = (retries' = 0)]
            /\ UNCHANGED req
       ELSE /\ req' = [latitude |-> latitude, longitude |-> longitude,
                       results |-> Results(ephemeris, Today(now))]
            /\ pc' = "plan"
            /\ UNCHANGED << execution_plan, plan_epoch, clock, iter, outage, retries >>
    /\ UNCHANGED << config, parsed_config, latitude, longitude, group_actions, bits,
                    enabled, last_request_date, sleeper, sleep_until, factory_config,
                    persisted, pytz_ok, n_advance, ephemeris, gateway, now, wd_pc,
                    cfg_vars,
                    dispatched, epoch, wake_pending, parse_vars,
                    coord_vars, wd_due >>

\* Lines 304-348: the plan is computed from the response and the two indexes, and
\* stored; the attempt loop ends.
RunPlan ==
    /\ pc = "plan"
    /\ \E order \in IterationOrders(group_actions, bits) :
          execution_plan' =
              StorePlan(execution_plan,
                        BuildPlan(order, now, req.results, group_actions, bits))
    /\ plan_epoch' = epoch
    /\ retries' = 0
    /\ req' = NoRequest
    /\ pc' = AfterSuccess(retries)
    /\ UNCHANGED << config, parsed_config, latitude, longitude, group_actions, bits,
                    enabled, last_request_date, sleeper, sleep_until, factory_config,
                    persisted, env_vars, now, wd_pc, cfg_vars,
                    dispatched, fetches, iter, epoch, wake_pending, history, parse_vars,
                    coord_vars, wd_due >>

\* Line 237: _print_execution_plan calls self._last_request_date.strftime, which
\* raises when a reconfiguration has reset the marker to None; the exception is
\* caught at line 285 and the loop sleeps until tomorrow (lines 286-289).
\* Otherwise lines 239-284 follow.
RunPrint ==
    /\ pc = "print"
    /\ IF last_request_date = NoDate
       THEN /\ Sleep(WakeTime(clock, Tomorrow(now), now))
            /\ UNCHANGED << execution_plan, dispatched, iter, history >>
       ELSE ScanOrSuspend
    /\ UNCHANGED << config, parsed_config, latitude, longitude, group_actions, bits,
                    enabled, last_request_date, sleeper, factory_config, persisted,
                    env_vars, now, retries, req, wd_pc, cfg_vars, fetches, epoch,
                    plan_epoch, wake_pending, parse_vars,
                    coord_vars, wd_due >>

\* _sleep, line 202: self._sleeper.clear()
SleepClear ==
    /\ pc = "clear"
    /\ sleeper' = FALSE
    /\ pc' = "wait"
    /\ UNCHANGED << config, parsed_config, latitude, longitude, group_actions, bits,
                    enabled, last_request_date, execution_plan, sleep_until,
                    factory_config, persisted, env_vars, now, retries, req, wd_pc,
                    cfg_vars, obs_vars, parse_vars,
                    coord_vars, wd_due >>

\* _sleep, line 203: self._sleeper.wait() returns once the event is set.
SleepWait ==
    /\ pc = "wait"
    /\ sleeper
    /\ pc' = "top"
    /\ UNCHANGED << plugin_vars, env_vars, now, retries, req, wd_pc, cfg_vars,
                    obs_vars, parse_vars,
                    coord_vars, wd_due >>

-----------------------------------------------------------------------------
(* The _sleep_manager thread *)

\* A test that lets a further period go by after the deadline.
ElapsedMut(deadline, t) == deadline + 5 < t

\* Line 196: self._sleep_until < time.time()
Elapsed(deadline, t) == deadline < t

\* Line 196: the condition holds; the thread is about to call set().  (When the
\* condition is false the thread sleeps 5 s and evaluates it again: no change.)
WatchdogCheck ==
    /\ wd_pc = "check"
    /\ ~sleeper
    /\ Elapsed(sleep_until, clock)
    /\ wd_pc' = "set"
    /\ UNCHANGED << plugin_vars, env_vars, run_vars, cfg_vars, obs_vars, parse_vars,
                    coord_vars, wd_due >>

\* Line 197: self._sleeper.set()
WatchdogSet ==
    /\ wd_pc = "set"
    /\ sleeper' = TRUE
    /\ wd_pc' = "check"
    /\ UNCHANGED << config, parsed_config, latitude, longitude, group_actions, bits,
                    enabled, last_request_date, execution_plan, sleep_until,
                    factory_config, persisted, env_vars, run_vars, cfg_vars, obs_vars,
                    parse_vars,
                    coord_vars, wd_due >>

-----------------------------------------------------------------------------
(* set_config and the _read_config it calls, one shared write per step *)

\* set_config lines 365-371 and _read_config line 65, `out` being the outcome of
\* the parse: the document is stored in self._config and parsed.  A parse error
\* propagates to the caller of set_config; otherwise the Configuration is stored
\* (in the factory, then in the plugin).
SetConfigOutcome(d, out) ==
    /\ cfg_pc = "idle"
    /\ n_reconfig < MaxReconfigs
    /\ n_reconfig' = n_reconfig + 1
    /\ config' = d
    /\ factory_config' = Stored(factory_config, out)
    /\ parsed_config' = Stored(parsed_config, out)
    /\ IF out.ok
       THEN /\ cfg_pc' = IF pytz_ok THEN "latitude" ELSE "enabled"
            /\ UNCHANGED cfg_result
       ELSE /\ cfg_result' = "error"
            /\ UNCHANGED cfg_pc
    /\ UNCHANGED << latitude, longitude, group_actions, bits, enabled,
                    last_request_date, execution_plan, sleeper, sleep_until, persisted,
                    env_vars, run_vars, wd_pc, obs_vars, parse_vars,
                    coord_vars, wd_due >>

\* Astro.set_config up to the parse of its document
SetConfig(d) == SetConfigOutcome(d, ParseConfiguration(d))

\* Line 78
ReadConfigLatitude ==
    /\ cfg_pc = "latitude"
    /\ latitude' = parsed_config.coordinates.latitude
    /\ cfg_pc' = "longitude"
    /\ UNCHANGED << config, parsed_config, longitude, group_actions, bits, enabled,
                    last_request_date, execution_plan, sleeper, sleep_until,
                    factory_config, persisted, env_vars, run_vars, wd_pc, cfg_result,
                    n_reconfig, obs_vars, parse_vars,
                    coord_vars, wd_due >>

\* Line 79
ReadConfigLongitude ==
    /\ cfg_pc = "longitude"
    /\ longitude' = parsed_config.coordinates.longitude
    /\ cfg_pc' = "group_actions"
    /\ UNCHANGED << config, parsed_config, latitude, group_actions, bits, enabled,
                    last_request_date, execution_plan, sleeper, sleep_until,
                    factory_config, persisted, env_vars, run_vars, wd_pc, cfg_result,
                    n_reconfig, obs_vars, parse_vars,
                    coord_vars, wd_due >>

\* Lines 84-100
ReadConfigGroupActions ==
    /\ cfg_pc = "group_actions"
    /\ group_actions' = NewGroupActions(group_actions, parsed_config)
    /\ cfg_pc' = "bits"
    /\ UNCHANGED << config, parsed_config, latitude, longitude, bits, enabled,
                    last_request_date, execution_plan, sleeper, sleep_until,
                    factory_config, persisted, env_vars, run_vars, wd_pc, cfg_result,
                    n_reconfig, obs_vars, parse_vars,
                    coord_vars, wd_due >>

\* Lines 102-120
ReadConfigBits ==
    /\ cfg_pc = "bits"
    /\ bits' = NewBits(bits, parsed_config)
    /\ cfg_pc' = "enabled"
    /\ UNCHANGED << config, parsed_config, latitude, longitude, group_actions, enabled,
                    last_request_date, execution_plan, sleeper, sleep_until,
                    factory_config, persisted, env_vars, run_vars, wd_pc, cfg_result,
                    n_reconfig, obs_vars, parse_vars,
                    coord_vars, wd_due >>

\* Line 123
ReadConfigEnabled ==
    /\ cfg_pc = "enabled"
    /\ enabled' = NewEnabled(pytz_ok, group_actions, bits)
    /\ cfg_pc' = "marker"
    /\ UNCHANGED << config, parsed_config, latitude, longitude, group_actions, bits,
                    last_request_date, execution_plan, sleeper, sleep_until,
                    factory_config, persisted, env_vars, run_vars, wd_pc, cfg_result,
                    n_reconfig, obs_vars, parse_vars,
                    coord_vars, wd_due >>

\* Line 124
ReadConfigMarker ==
    /\ cfg_pc = "marker"
    /\ last_request_date' = NoDate
    /\ cfg_pc' = "signal"
    /\ UNCHANGED << config, parsed_config, latitude, longitude, group_actions, bits,
                    enabled, execution_plan, sleeper, sleep_until, factory_config,
                    persisted, env_vars, run_vars, wd_pc, cfg_result, n_reconfig,
                    obs_vars, parse_vars,
                    coord_vars, wd_due >>

\* Line 126, self._sleeper.set(): _read_config is complete.  Back in set_config,
\* lines 372-373: write_config, then the success reply.
ReadConfigSignal ==
    /\ cfg_pc = "signal"
    /\ sleeper' = TRUE
    /\ epoch' = epoch + 1
    /\ wake_pending' = TRUE
    /\ persisted' = config
    /\ cfg_result' = "ok"
    /\ cfg_pc' = "idle"
    /\ UNCHANGED << config, parsed_config, latitude, longitude, group_actions, bits,
                    enabled, last_request_date, execution_plan, sleep_until,
                    factory_config, env_vars, run_vars, wd_pc, n_reconfig, dispatched,
                    fetches, iter, plan_epoch, history, parse_vars,
                    coord_vars, wd_due >>

-----------------------------------------------------------------------------
(* Environment: time passes while the run() thread is blocked in wait(), until   *)
(* just after the deadline or Late seconds more.                                  *)

Advance ==
    /\ pc = "wait"
    /\ ~sleeper
    /\ clock <= sleep_until
    /\ n_advance < MaxAdvance
    /\ n_advance' = n_advance + 1
    /\ \E late \in {0, Late} : clock' = sleep_until + 1 + late
    /\ UNCHANGED << plugin_vars, pytz_ok, outage, ephemeris, gateway, run_vars, wd_pc,
                    cfg_vars, obs_vars, parse_vars,
                    coord_vars, wd_due >>

-----------------------------------------------------------------------------

Next ==
    \/ RunTop
    \/ RunCheckDay
    \/ RunMark
    \/ RunRequest
    \/ RunPlan
    \/ RunPrint
    \/ SleepClear
    \/ SleepWait
    \/ WatchdogCheck
    \/ WatchdogSet
    \/ \E d \in ReconfigDocs : SetConfig(d)
    \/ ReadConfigLatitude
    \/ ReadConfigLongitude
    \/ ReadConfigGroupActions
    \/ ReadConfigBits
    \/ ReadConfigEnabled
    \/ ReadConfigMarker
    \/ ReadConfigSignal
    \/ Advance

Spec == Init /\ [][Next]_vars

-----------------------------------------------------------------------------
(* ConfigurationFactory.parse_configuration on its own: one document, parsed once *)

OneRoleBits(r, b) == [i \in 1..5 |-> IF i = r THEN b ELSE -1]

CoordsComma == << "5", "1", ",", "0", "6", "/", "-", "3", ",", "7" >>

\* 1.0 documents with exactly one bit role enabled.
V1OneRoleDocs ==
    { DocV1(CoordsGhent, OneRoleBits(r, b), off, a) :
        r \in 1..5, b \in {0, 2}, off \in {0, 60, -30}, a \in {0, 4} }

\* Other 1.0 documents: no role, two roles, no automation, keys left out, no or
\* unreadable coordinates.
V1OtherDocs ==
    { DocV1(CoordsGhent, NoBits, 0, 4),
      DocV1(CoordsComma, << 2, -1, -1, -1, 3 >>, 60, 4),
      DocV1(CoordsGhent, << 2, -1, -1, -1, -1 >>, 60, -1),
      DocV1(CoordsComma, << -1, -1, 1, -1, -1 >>, 0, 0),
      Doc({"coordinates", "horizon_bit"}, "", CoordsGhent, << >>, << >>,
          << 2, -1, -1, -1, -1 >>, 0, -1),
      Doc({"coordinates", "bright_bit", "group_action"}, "", CoordsGhent, << >>, << >>,
          << -1, -1, -1, -1, 2 >>, 0, 4),
      DocV1(<< >>, << 2, -1, -1, -1, -1 >>, 0, 4),
      DocV1(CoordsBad, << 2, -1, -1, -1, -1 >>, 0, 4) }

\* 1.0 documents whose automation id is "not in use" (-1, given or by the key's
\* absence), below that, or 0: with no role, one role or two roles enabled.
V1UnusedDocs ==
    { DocV1(CoordsGhent, b, 60, a) :
        b \in {NoBits, OneRoleBits(1, 0), OneRoleBits(5, 3), << 2, -1, 4, -1, -1 >>,
               << -2, -1, -1, -1, -1 >>},
        a \in {-1, -2, 0} }
    \cup { Doc(V1Keys \ {"group_action"}, "", CoordsGhent, << >>, << >>, b, 0, -1) :
             b \in {NoBits, OneRoleBits(3, 1)} }

\* 1.0 documents with every combination of the five roles in use (role r has bit
\* r - 1), not in use (-1) or below that (-2).
V1ManyRoleDocs ==
    { DocV1(CoordsGhent, [r \in 1..5 |-> IF c[r] = 0 THEN r - 1 ELSE -c[r]], 60, 4) :
        c \in [1..5 -> 0..2] }

\* "42.8, 13.9", the shape of the coordinates in test_calculate_mapping_v2.
CoordsSpaced == << "4", "2", ".", "8", ",", " ", "1", "3", ".", "9" >>

\* The document with a `version` field of the given value added (or replaced).
Tagged(d, ver) == [d EXCEPT !.keys = @ \cup {"version"}, !.version = ver]

\* Documents in the 2.0 shape (both lists, no version field): the lists of DocMixed;
\* the document of test_calculate_mapping_v2; ids given as text, one of them
\* negative; an id that is no number; an unknown sun location; an offset that is
\* no number.
ListBodies ==
    { DocBitsOnly,
      DocV2(CoordsGhent, DocMixed.basic_configuration, DocMixed.advanced_configuration),
      DocV2(CoordsSpaced,
            << BasicItem(IntV(3), "sunset", StrV(<< "3", "0" >>)),
               BasicItem(IntV(5), "sunrise", StrV(<< "-", "9", "0" >>)) >>, << >>),
      DocV2(CoordsGhent, << >>, << >>),
      DocV2(CoordsGhent, << BasicItem(StrV(<< "1", "2" >>), "solar noon", NoneV) >>,
            << AdvancedItem("clear", StrV(<< "-", "3" >>), "civil dusk", IntV(0)) >>),
      DocV2(CoordsGhent, << BasicItem(StrV(<< "x" >>), "sunrise", IntV(0)) >>, << >>),
      DocV2(CoordsGhent, << BasicItem(IntV(3), "sunrise", IntV(0)) >>,
            << AdvancedItem("set", StrV(<< "7", "a" >>), "sunset", IntV(0)) >>),
      DocV2(CoordsGhent, << BasicItem(IntV(3), "noon", IntV(0)) >>, << >>),
      DocV2(CoordsGhent, << >>, << AdvancedItem("set", IntV(7), "dusk", IntV(0)) >>),
      DocV2(CoordsGhent, << BasicItem(IntV(3), "sunrise", StrV(<< "x" >>)) >>, << >>) }

\* The same documents as they are and tagged 2.0 and 3.0.
ListDocs == ListBodies \cup { Tagged(d, ver) : d \in ListBodies, ver \in {"2.0", "3.0"} }

\* Documents whose shape and `version` field disagree, or that have one list key
\* only, or a version the plugin does not know (one of them an empty string).
VersionDocs ==
    { Tagged(DocV1(CoordsGhent, << 2, -1, -1, -1, 3 >>, 60, 4), ver) :
        ver \in {"1.0", "2.0", "3.0", "4.0", ""} }
    \cup { Tagged(d, ver) : d \in {DocBitsOnly, DocV2(CoordsGhent, << >>, << >>)},
                             ver \in {"1.0", "4.0"} }
    \cup { Doc(V1Keys \cup {k}, "", CoordsGhent,
               << BasicItem(IntV(3), "sunset", IntV(0)) >>,
               << AdvancedItem("set", IntV(7), "sunrise", IntV(0)) >>,
               << 2, -1, -1, -1, -1 >>, 0, 4) :
            k \in {"basic_configuration", "advanced_configuration"} }
    \cup { Doc(V1Keys \cup {"basic_configuration", "advanced_configuration"}, "",
               CoordsGhent, << BasicItem(IntV(3), "sunset", IntV(0)) >>, << >>,
               << 2, -1, -1, -1, -1 >>, 0, 4),
           Doc({"coordinates", "basic_configuration"}, "", CoordsGhent,
               << BasicItem(IntV(3), "sunset", IntV(0)) >>, << >>, NoBits, 0, -1) }

\* Documents of the three versions without the coordinates key, and with empty
\* coordinates.
NoCoordinatesDocs ==
    LET bases == { DocV1(CoordsGhent, << 2, -1, -1, -1, -1 >>, 0, 4),
                   Tagged(DocV1(CoordsGhent, << -1, -1, -1, -1, 3 >>, 60, 4), "1.0"),
                   DocBitsOnly,
                   Tagged(DocBitsOnly, "2.0"),
                   DocMixed,
                   DocEmpty }
    IN  { [d EXCEPT !.keys = @ \ {"coordinates"}] : d \in bases }
            \cup { [d EXCEPT !.coordinates = << >>] : d \in bases }

\* Coordinates with seven decimals, and negative ones with six.
CoordsFine ==
    << "1", ".", "2", "3", "4", "5", "6", "7", "8", ";", "3", ".", "7" >>

CoordsSouthWest ==
    << "-", "3", "3", ".", "9", "2", "4", "8", "6", "9", ";",
       "-", "0", ".", "0", "0", "0", "0", "0", "1" >>

FineDocs ==
    { DocV3(c, << BasicItem(StrV(<< "7" >>), "sunset", StrV(<< "-", "9", "0" >>)) >>,
            << AdvancedItem("clear", IntV(8), "civil dusk", NoneV) >>) :
        c \in {CoordsFine, CoordsSouthWest} }
      \cup { DocV1(c, << 2, -1, -1, -1, 3 >>, 60, 4) : c \in {CoordsFine, CoordsSouthWest} }

ParseDocs ==
    V1OneRoleDocs \cup V1OtherDocs \cup V1ManyRoleDocs \cup ListDocs \cup VersionDocs
        \cup NoCoordinatesDocs \cup FineDocs \cup V1UnusedDocs
        \cup {DocEmpty, DocMixed, DocBitsOnly, DocNegativeId,
              DocV3(CoordsBad, << >>, << >>),
              Doc(ListKeys, "4.0", CoordsGhent, << >>, << >>, NoBits, 0, -1)}

InitParse ==
    /\ Constructed(DocEmpty, TRUE, 85200, 0, EphemerisA)
    /\ gateway = GatewayOk
    /\ in_doc \in ParseDocs
    /\ ParseIdle
    /\ CoordsIdle
    /\ Untimed

\* curr_config once the if/elif chain of parse_configuration is over: what the
\* migration returned or raised; nothing when the detection itself raised.
MigrationOutcome(d, ver) == IF ver.ok THEN MigrateAs(d, ver) ELSE NoOutcome

\* config_factory.parse_configuration(in_doc)
Parse ==
    /\ out_parse = NoOutcome
    /\ out_version' = DetermineVersion(in_doc)
    /\ out_migrate' = MigrationOutcome(in_doc, out_version')
    /\ out_parse' = ParseConfiguration(in_doc)
    /\ factory_config' = Stored(factory_config, out_parse')
    /\ UNCHANGED << config, parsed_config, latitude, longitude, group_actions, bits,
                    enabled, last_request_date, execution_plan, sleeper, sleep_until,
                    persisted, env_vars, run_vars, wd_pc, cfg_vars, obs_vars, in_doc,
                    out_export, out_reparse, coord_vars, wd_due >>

\* config_factory.get_json_configuration() once the parse has returned: the export
\* of self.config.
Export ==
    /\ out_parse.ok
    /\ out_export = NoExport
    /\ out_export' = GetJsonConfiguration(factory_config)
    /\ UNCHANGED << plugin_vars, env_vars, run_vars, wd_pc, cfg_vars, obs_vars, in_doc,
                    out_version, out_migrate, out_parse, out_reparse, coord_vars, wd_due >>

\* config_factory.parse_configuration(out_export)
Reparse ==
    /\ out_export # NoExport
    /\ out_reparse = NoOutcome
    /\ out_reparse' = ParseConfiguration(out_export)
    /\ factory_config' = Stored(factory_config, out_reparse')
    /\ UNCHANGED << config, parsed_config, latitude, longitude, group_actions, bits,
                    enabled, last_request_date, execution_plan, sleeper, sleep_until,
                    persisted, env_vars, run_vars, wd_pc, cfg_vars, obs_vars, in_doc,
                    out_version, out_migrate, out_parse, out_export, coord_vars, wd_due >>

NextParse == Parse \/ Export \/ Reparse

SpecParse == InitParse /\ [][NextParse]_vars

-----------------------------------------------------------------------------
(* Coordinates.__str__ and Coordinates.from_string on their own: a value is      *)
(* formatted and the text parsed back, or a text is parsed                        *)

\* Latitudes and longitudes: 0, 51.06463, -3.737539, -0.5, 0.000001, -0.000001,
\* 90, -180, and two that six decimals cannot hold, 1.2345678 and -0.0000004.
CoordNumbers ==
    { Dec(0, 0), Dec(5106463, 5), Dec(-3737539, 6), Dec(-5, 1), Dec(1, 6), Dec(-1, 6),
      Dec(90, 0), Dec(-180, 0), Dec(12345678, 7), Dec(-4, 7) }

CoordValues == { Coordinates(a, b) : a \in CoordNumbers, b \in CoordNumbers }

\* How a text may begin, what may stand in the middle, and how it may end.
TextHeads ==
    { << "1", ".", "5" >>,
      << "-", "1", ",", "5" >>,
      << "1", "2", ".", "3", "4" >>,
      << "1", "5" >>,
      << "1", "." >>,
      << ".", "5" >>,
      << "+", "1", ".", "5" >>,
      << "x", "1", ".", "5" >>,
      << "1", ".", "5", "x" >>,
      << >>,
      << "-" >>,
      << "1", ".", "2", ".", "3" >> }

TextMiddles ==
    { << ";" >>,
      << "," >>,
      << "/" >>,
      << " ", ";", " " >>,
      << ",", " " >>,
      << "x", ";", "y" >>,
      << ";", ";" >>,
      << >>,
      << " " >>,
      << ":" >>,
      << ";", "9", ";" >>,
      << "|" >> }

TextTails ==
    { << "2", ".", "5" >>,
      << "-", "2", ",", "5" >>,
      << "0", ".", "2", "5" >>,
      << "2", "5" >>,
      << "2", "." >>,
      << ".", "5" >>,
      << "2", ".", "5", " " >>,
      << "x", "2", ".", "5" >>,
      << >>,
      << "-", "-", "2", ".", "5" >>,
      << "2", ".", "5", ";" >> }

CoordTexts == { h \o m \o t : h \in TextHeads, m \in TextMiddles, t \in TextTails }

InitCoords ==
    /\ Constructed(DocEmpty, TRUE, 85200, 0, EphemerisA)
    /\ gateway = GatewayOk
    /\ in_doc = DocEmpty
    /\ ParseIdle
    /\ Untimed
    /\ c_parsed = NoParsed
    /\ \/ c_pc = "str" /\ c_value \in CoordValues /\ c_text = << >>
       \/ c_pc = "from_string" /\ c_value = NoCoordinates /\ c_text \in CoordTexts

\* str(c_value)
StrCall ==
    /\ c_pc = "str"
    /\ c_text' = Str(c_value)
    /\ c_pc' = "from_string"
    /\ UNCHANGED << plugin_vars, env_vars, run_vars, wd_pc, cfg_vars, obs_vars,
                    parse_vars, c_value, c_parsed, wd_due >>

\* Coordinates.from_string(c_text)
FromStringCall ==
    /\ c_pc = "from_string"
    /\ c_parsed' = FromString(c_text)
    /\ c_pc' = "done"
    /\ UNCHANGED << plugin_vars, env_vars, run_vars, wd_pc, cfg_vars, obs_vars,
                    parse_vars, c_value, c_text, wd_due >>

NextCoords == StrCall \/ FromStringCall

SpecCoords == InitCoords /\ [][NextCoords]_vars

-----------------------------------------------------------------------------
(* _build_execution_plan on its own: the first iteration of run() after          *)
(* construction, up to the plan it stores                                         *)

\* Automations around sunrise (10 and 11 minutes before, at, and at once more with
\* the offset as text), one 5 minutes after civil dawn, one at solar noon, one at
\* nautical dawn; a validation bit set at sunrise and cleared at sunset.
DocDawn ==
    DocV3(CoordsGhent,
          << BasicItem(IntV(1), "sunrise", IntV(-10)),
             BasicItem(IntV(2), "sunrise", IntV(-11)),
             BasicItem(IntV(3), "sunrise", IntV(0)),
             BasicItem(IntV(4), "civil dawn", IntV(5)),
             BasicItem(IntV(5), "sunrise", StrV(<< "0" >>)),
             BasicItem(IntV(6), "solar noon", IntV(0)),
             BasicItem(IntV(9), "nautical dawn", IntV(0)) >>,
          << AdvancedItem("set", IntV(7), "sunrise", IntV(0)),
             AdvancedItem("clear", IntV(8), "sunset", IntV(0)) >>)

\* The site of EphemerisA on a day on which civil dawn is 5 minutes before sunrise.
EphemerisC == [EphemerisA EXCEPT !["civil_twilight_begin"] = TimeV(85500)]

PlanDocs == {DocEmpty, DocMixed, DocBitsOnly, DocDawn}

PlanEphemerides == {EphemerisA, EphemerisB, EphemerisC}

\* The clock at construction: 23:39:00, 23:40:00 and 23:40:01 of day 0.
PlanClocks == {85140, 85200, 85201}

\* No request fails, or the first one does, or the first four do.
PlanOutages == {0, 1, 4}

InitPlan ==
    /\ \E d \in PlanDocs, t \in PlanClocks, o \in PlanOutages, eph \in PlanEphemerides :
          Constructed(d, TRUE, t, o, eph)
    /\ gateway = GatewayOk
    /\ in_doc = DocEmpty
    /\ ParseIdle
    /\ CoordsIdle
    /\ Untimed

NextPlan ==
    \/ RunTop
    \/ RunCheckDay
    \/ RunMark
    \/ RunRequest
    \/ RunPlan

SpecPlan == InitPlan /\ [][NextPlan]_vars

-----------------------------------------------------------------------------
(* The wait and the watchdog with time counted in seconds: the loop, with no     *)
(* call of set_config, and a watchdog that evaluates its condition when its      *)
(* time.sleep(5) returns.  Steps take no time; the clock moves one second at a   *)
(* time while the loop is blocked in wait() and the watchdog sleeps.             *)

\* time.sleep(5), line 198
WatchdogPeriod == 5

\* The clock value at which the model stops counting.
MaxClock == 85830

\* The offsets of the watchdog's first evaluation from the plugin's construction.
WatchdogPhases == 0..(WatchdogPeriod - 1)

InitWatch ==
    /\ \E d \in InitDocs, eph \in {EphemerisA, EphemerisB} :
          Constructed(d, TRUE, 85200, 0, eph)
    /\ gateway = GatewayMixed
    /\ in_doc = DocEmpty
    /\ ParseIdle
    /\ CoordsIdle
    /\ \E ph \in WatchdogPhases : wd_due = clock + ph

\* Lines 196 and 198: the sleep is over and the condition is false; the thread
\* sleeps another 5 s.
WatchdogPass ==
    /\ wd_pc = "check"
    /\ clock >= wd_due
    /\ ~(~sleeper /\ Elapsed(sleep_until, clock))
    /\ wd_due' = clock + WatchdogPeriod
    /\ UNCHANGED << plugin_vars, env_vars, run_vars, wd_pc, cfg_vars, obs_vars,
                    parse_vars, coord_vars >>

\* Line 196: the sleep is over and the condition holds.
WatchdogCheckDue == clock >= wd_due /\ WatchdogCheck

\* Lines 197-198: self._sleeper.set(), then time.sleep(5).
WatchdogSetSleep ==
    /\ wd_pc = "set"
    /\ sleeper' = TRUE
    /\ wd_pc' = "check"
    /\ wd_due' = clock + WatchdogPeriod
    /\ UNCHANGED << config, parsed_config, latitude, longitude, group_actions, bits,
                    enabled, last_request_date, execution_plan, sleep_until,
                    factory_config, persisted, env_vars, run_vars, cfg_vars, obs_vars,
                    parse_vars, coord_vars >>

\* A second passes while the loop is blocked in wait() and the watchdog sleeps.
Tick ==
    /\ pc = "wait"
    /\ ~sleeper
    /\ wd_pc = "check"
    /\ clock < wd_due
    /\ clock < MaxClock
    /\ clock' = clock + 1
    /\ UNCHANGED << plugin_vars, pytz_ok, n_advance, outage, ephemeris, gateway,
                    run_vars, wd_pc, wd_due, cfg_vars, obs_vars, parse_vars,
                    coord_vars >>

NextWatch ==
    \/ RunTop
    \/ RunCheckDay
    \/ RunMark
    \/ RunRequest
    \/ RunPlan
    \/ RunPrint
    \/ SleepClear
    \/ SleepWait
    \/ WatchdogPass
    \/ WatchdogCheckDue
    \/ WatchdogSetSleep
    \/ Tick

\* Each thread that can take a step takes one, and time goes on.
SpecWatch ==
    /\ InitWatch
    /\ [][NextWatch]_vars
    /\ WF_vars(RunTop \/ RunCheckDay \/ RunMark \/ RunRequest \/ RunPlan \/ RunPrint
                  \/ SleepClear \/ SleepWait)
    /\ WF_vars(WatchdogPass \/ WatchdogCheckDue \/ WatchdogSetSleep)
    /\ WF_vars(Tick)

-----------------------------------------------------------------------------
(* The scheduler left alone: the loop, the watchdog and the clock, with no call  *)
(* of set_config, against collaborators that fail in different ways               *)

ScanDocs == {DocMixed, DocDawn}

ScanEphemerides == {EphemerisA, EphemerisB, EphemerisC}

ScanGateways == {GatewayOk, GatewayMixed, GatewayRefusing, GatewayDown}

InitScan ==
    /\ \E d \in ScanDocs, t \in StartClocks, o \in PlanOutages, eph \in ScanEphemerides :
          Constructed(d, TRUE, t, o, eph)
    /\ gateway \in ScanGateways
    /\ in_doc = DocEmpty
    /\ ParseIdle
    /\ CoordsIdle
    /\ Untimed

NextScan ==
    \/ RunTop
    \/ RunCheckDay
    \/ RunMark
    \/ RunRequest
    \/ RunPlan
    \/ RunPrint
    \/ SleepClear
    \/ SleepWait
    \/ WatchdogCheck
    \/ WatchdogSet
    \/ Advance

SpecScan == InitScan /\ [][NextScan]_vars

-----------------------------------------------------------------------------
(* The scheduler from one day into the next: no call of set_config, and every    *)
(* wake less than 5 minutes after its deadline                                    *)

\* Automations at sunrise, 9 minutes after it (23:59:00) and 30 minutes after
\* sunset (00:10:06 of the next day), and a validation bit set at sunrise.
DocLate ==
    DocV3(CoordsGhent,
          << BasicItem(IntV(1), "sunrise", IntV(0)),
             BasicItem(IntV(3), "sunrise", IntV(9)),
             BasicItem(IntV(2), "sunset", IntV(30)) >>,
          << AdvancedItem("set", IntV(7), "sunrise", IntV(0)) >>)

DayDocs == {DocMixed, DocLate}

\* The clock at construction: 23:40:00 and 23:59:40 of day 0.
DayClocks == {85200, 86380}

\* No request fails, or the first one does, or the first ten do.
DayOutages == {0, 1, 2 * Retries}

DayGateways == {GatewayOk, GatewayMixed}

\* How many waits the clock is moved past.
MaxWakes == 4

\* How long after its deadline a wake may come here: 2 minutes.
Prompt == 120

InitDay ==
    /\ \E d \in DayDocs, t \in DayClocks, o \in DayOutages :
          Constructed(d, TRUE, t, o, EphemerisA)
    /\ gateway \in DayGateways
    /\ in_doc = DocEmpty
    /\ ParseIdle
    /\ CoordsIdle
    /\ Untimed

\* Time passes while the loop is blocked in wait(), until just after the deadline
\* or up to Prompt seconds more.
AdvanceOnTime ==
    /\ pc = "wait"
    /\ ~sleeper
    /\ clock <= sleep_until
    /\ n_advance < MaxWakes
    /\ n_advance' = n_advance + 1
    /\ \E late \in {0, Prompt} : clock' = sleep_until + 1 + late
    /\ UNCHANGED << plugin_vars, pytz_ok, outage, ephemeris, gateway, run_vars, wd_pc,
                    cfg_vars, obs_vars, parse_vars, coord_vars, wd_due >>

NextDay ==
    \/ RunTop
    \/ RunCheckDay
    \/ RunMark
    \/ RunRequest
    \/ RunPlan
    \/ RunPrint
    \/ SleepClear
    \/ SleepWait
    \/ WatchdogCheck
    \/ WatchdogSet
    \/ AdvanceOnTime

SpecDay == InitDay /\ [][NextDay]_vars

-----------------------------------------------------------------------------
(* Properties *)

\* The entries of `plan` for one action: << fire time, position >> of every entry
\* with the given task and data that names the location and offset.
PlanSlots(plan, task, loc, data, offset) ==
    { slot \in UNION { { << d, j >> : j \in DOMAIN plan[d] } : d \in DOMAIN plan } :
        LET e == plan[slot[1]][slot[2]]
        IN  /\ e.task = task
            /\ e.data = data
            /\ e.source.sun_location[2] = loc
            /\ e.source.offset = offset }

\* The step that stores the plan of a successful fetch.
PlanStored == pc = "plan" /\ pc' = "print"

\* C1: after a successful fetch, every action of the index (validation-bit and
\* group-action alike) whose solar event has a defined timestamp and whose fire
\* time, event time plus offset minutes, is not before `now` has exactly one entry
\* in the stored plan, under exactly that fire time.
C1_PlanHoldsEveryIndexedAction ==
    [][PlanStored =>
        /\ \A key \in DOMAIN bits : \A k \in DOMAIN bits[key] :
              LET a == bits[key][k]
                  ev == req.results[FieldMap[key[2]]]
              IN  (ev.kind = "time" /\ ev.t + a.offset * 60 >= now) =>
                    PlanSlots(execution_plan', "bit", key[2],
                              [action |-> a.action, bit_id |-> a.bit_id], a.offset)
                        \in { { << ev.t + a.offset * 60, j >> } : j \in 1..8 }
        /\ \A key \in DOMAIN group_actions : \A k \in DOMAIN group_actions[key] :
              LET a == group_actions[key][k]
                  ev == req.results[FieldMap[key[2]]]
              IN  (ev.kind = "time" /\ ev.t + a.offset * 60 >= now) =>
                    PlanSlots(execution_plan', "group_action", key[2],
                              [group_action_id |-> a.group_action_id], a.offset)
                        \in { { << ev.t + a.offset * 60, j >> } : j \in 1..8 }
    ]_vars

\* The step in which the run loop scans the plan.
Scanned == ~iter.scanned /\ iter'.scanned

\* C2: in every scan a fire time of the plan is dispatched if and only if it is at
\* most 300 s before or after the scan's `now`; every entry of a dispatched fire
\* time is dispatched once and the fire time leaves the plan; every other fire time
\* stays as it was; so nothing is dispatched more than 300 s early or late.
C2_DispatchedIffWithinFiveMinutes ==
    [][Scanned =>
        /\ \A d \in DOMAIN execution_plan :
              IF d - now <= 300 /\ now - d <= 300
              THEN /\ d \notin DOMAIN execution_plan'
                   /\ \A k \in DOMAIN execution_plan[d] :
                         Cardinality({ r \in dispatched' : r.date = d /\ r.pos = k }) = 1
                   /\ \A r \in dispatched' :
                         r.date = d => /\ r.pos \in DOMAIN execution_plan[d]
                                       /\ r.entry = execution_plan[d][r.pos]
              ELSE /\ d \in DOMAIN execution_plan'
                   /\ execution_plan'[d] = execution_plan[d]
                   /\ \A r \in dispatched' : r.date # d
        /\ DOMAIN execution_plan' \subseteq DOMAIN execution_plan
        /\ \A r \in dispatched' :
              /\ r.date \in DOMAIN execution_plan
              /\ r.at = now
              /\ r.at - r.date <= 300
              /\ r.date - r.at <= 300
    ]_vars

\* A scan that dispatched one entry exactly 300 s ahead of its fire time and another
\* after its fire time, and left a later fire time in the plan.
C2_Witness ==
    /\ \E r, q \in dispatched : r.date - r.at = 300 /\ q.at > q.date
    /\ DOMAIN execution_plan # {}

\* C5: one plan build makes at most 5 requests; every failed attempt empties the
\* plan and is followed by a 5 s delay; when all attempts failed the plan is empty
\* and the next wait's deadline is not before tomorrow plus 5 s.
C5_AtMostFiveAttemptsThenTomorrow ==
    [][/\ fetches' <= 5
       /\ (fetches' = fetches + 1 /\ pc' # "plan") =>
              (clock' = clock + 5 /\ execution_plan' = EmptyPlan)
       /\ (iter.exhausted /\ pc = "print" /\ pc' # "print") =>
              /\ fetches = 5
              /\ execution_plan = EmptyPlan
              /\ execution_plan' = EmptyPlan
              /\ dispatched' = {}
              /\ pc' = "clear"
              /\ sleep_until' >= Tomorrow(now) + 5
    ]_vars

\* The loop waits after a build whose five attempts all failed.
C5_Witness ==
    /\ iter.exhausted
    /\ fetches = 5
    /\ pc = "wait"
    /\ ~sleeper
    /\ clock = now + 25

\* The step in which a set_config call fails to parse its document.
ReconfigurationFailed ==
    cfg_pc = "idle" /\ n_reconfig' = n_reconfig + 1 /\ ~ParseConfiguration(config').ok

\* C9: a set_config call whose document fails migration or validation reports the
\* error and leaves the parsed Configuration, both indexes, the enabled flag, the
\* day marker, the plan, the persisted document, the wake signal and the factory's
\* stored configuration as they were.
C9_FailedReconfigurationChangesNothing ==
    [][ReconfigurationFailed =>
        /\ cfg_result' = "error"
        /\ cfg_pc' = "idle"
        /\ UNCHANGED << parsed_config, group_actions, bits, enabled, last_request_date,
                        execution_plan, persisted, sleeper, factory_config >>
    ]_vars

\* A set_config call failed while the scheduler was waiting on a plan with entries.
C9_Witness ==
    /\ cfg_result = "error"
    /\ config = DocNegativeId
    /\ parsed_config.group_action_jobs # << >>
    /\ DOMAIN execution_plan # {}
    /\ pc = "wait"
    /\ ~sleeper

\* The one enabled role of a 1.0 document, or 0.
OneEnabledRole(d) ==
    LET on == { r \in 1..5 : V1Roles(d)[r][1] >= 0 }
    IN  IF Cardinality(on) = 1 THEN CHOOSE r \in on : TRUE ELSE 0

\* C10: a valid 1.0 document with coordinates, automation id A >= 0 and exactly one
\* enabled bit role parses to exactly two ValidationJobs, SET at the role's start
\* event then CLEAR at its end event, and two GroupActionJobs with id A at the same
\* events in the same order; offsets are 0, or (+bright_offset, -bright_offset) for
\* the bright role.
C10_OneRoleMigration ==
    LET r == OneEnabledRole(in_doc)
        start == << "sunrise", "civil dawn", "nautical dawn", "astronomical dawn",
                    "sunrise" >>
        stop == << "sunset", "civil dusk", "nautical dusk", "astronomical dusk",
                   "sunset" >>
        bit == [i \in 1..5 |-> V1Roles(in_doc)[i][1]]
        off == IF r = 5 THEN Get(in_doc, "bright_offset", 0) ELSE 0
        A == Get(in_doc, "group_action", -1)
    IN  (/\ out_parse # NoOutcome
         /\ "version" \notin in_doc.keys
         /\ ~({"basic_configuration", "advanced_configuration"} \subseteq in_doc.keys)
         /\ "coordinates" \in in_doc.keys
         /\ in_doc.coordinates # << >>
         /\ FromString(in_doc.coordinates).ok
         /\ A >= 0
         /\ r # 0) =>
            /\ out_parse.ok
            /\ out_parse.cfg.coordinates = FromString(in_doc.coordinates).v
            /\ out_parse.cfg.validation_jobs =
                  << [action |-> "set", bit_id |-> bit[r], sun_location |-> start[r],
                      offset |-> off],
                     [action |-> "clear", bit_id |-> bit[r], sun_location |-> stop[r],
                      offset |-> -off] >>
            /\ out_parse.cfg.group_action_jobs =
                  << [group_action_id |-> A, sun_location |-> start[r], offset |-> off],
                     [group_action_id |-> A, sun_location |-> stop[r], offset |-> -off] >>

\* A 1.0 document with only the bright role enabled and a nonzero offset was parsed.
C10_Witness ==
    /\ out_parse.ok
    /\ in_doc.keys = V1Keys
    /\ OneEnabledRole(in_doc) = 5
    /\ in_doc.bright_offset = 60
    /\ in_doc.group_action = 4
    /\ Len(out_parse.cfg.validation_jobs) = 2

\* C11: for every 1.0 document with coordinates and k roles whose bit is >= 0,
\* migration emits exactly 2k ValidationJobs and 2k GroupActionJobs: the roles in
\* the order horizon, civil, nautical, astronomical, bright, each role's SET/start
\* job right before its CLEAR/end job; a role whose bit is below 0 adds nothing.
C11_ManyRoleMigration ==
    LET start == << "sunrise", "civil dawn", "nautical dawn", "astronomical dawn",
                    "sunrise" >>
        stop == << "sunset", "civil dusk", "nautical dusk", "astronomical dusk",
                   "sunset" >>
        field == << "horizon_bit", "civil_bit", "nautical_bit", "astronomical_bit",
                    "bright_bit" >>
        bit == [r \in 1..5 |-> IF field[r] \in in_doc.keys THEN in_doc[field[r]] ELSE -1]
        on == { r \in 1..5 : bit[r] >= 0 }
        before == [r \in 1..5 |-> Cardinality({ q \in on : q < r })]
        off == [r \in 1..5 |->
                   IF r = 5 /\ "bright_offset" \in in_doc.keys
                   THEN in_doc.bright_offset ELSE 0]
        A == IF "group_action" \in in_doc.keys THEN in_doc.group_action ELSE -1
        vj == out_migrate.cfg.validation_jobs
        gj == out_migrate.cfg.group_action_jobs
    IN  (/\ out_version.ok
         /\ out_version.v = "1.0"
         /\ "coordinates" \in in_doc.keys
         /\ in_doc.coordinates # << >>
         /\ FromString(in_doc.coordinates).ok) =>
            /\ out_migrate.ok
            /\ Len(vj) = 2 * Cardinality(on)
            /\ Len(gj) = 2 * Cardinality(on)
            /\ \A r \in on :
                  /\ vj[2 * before[r] + 1] =
                        [action |-> "set", bit_id |-> IntV(bit[r]),
                         sun_location |-> start[r], offset |-> off[r]]
                  /\ vj[2 * before[r] + 2] =
                        [action |-> "clear", bit_id |-> IntV(bit[r]),
                         sun_location |-> stop[r], offset |-> -off[r]]
                  /\ gj[2 * before[r] + 1] =
                        [group_action_id |-> IntV(A), sun_location |-> start[r],
                         offset |-> off[r]]
                  /\ gj[2 * before[r] + 2] =
                        [group_action_id |-> IntV(A), sun_location |-> stop[r],
                         offset |-> -off[r]]

\* A 1.0 document with the horizon (bit 0), nautical and bright roles in use, the
\* civil role at -1 and the astronomical role at -2 was migrated to six jobs of
\* each kind.
C11_Witness ==
    /\ out_migrate.ok
    /\ out_version.v = "1.0"
    /\ << in_doc.horizon_bit, in_doc.civil_bit, in_doc.nautical_bit,
          in_doc.astronomical_bit, in_doc.bright_bit >> = << 0, -1, 2, -2, 4 >>
    /\ Len(out_migrate.cfg.validation_jobs) = 6
    /\ Len(out_migrate.cfg.group_action_jobs) = 6

\* The integer an offset of a document stands for: 0 for null and for the empty
\* string, the number itself, or the number a numeral spells; -1000 for any other.
OffsetMeant(o) ==
    CASE o.t = "none" -> 0
      [] o.t = "int" -> o.i
      [] o.s = << >> -> 0
      [] o.s = << "4" >> -> 4
      [] o.s = << "3", "0" >> -> 30
      [] o.s = << "-", "2", "0" >> -> -20
      [] o.s = << "-", "9", "0" >> -> -90
      [] OTHER -> -1000

\* C12: for every 2.0 or 3.0 document with coordinates, recognized tokens and
\* offsets that are null, empty, a number or a numeral, migration returns the i-th
\* basic_configuration item as the i-th GroupActionJob and the i-th
\* advanced_configuration item as the i-th ValidationJob, with the same id, sun
\* location and action, the offset as an integer (0 for null or empty), the lists
\* as long as the document's; and a 2.0 document migrates to the Configuration
\* that the same document tagged 3.0 migrates to.
C12_ListMigration ==
    LET basic == IF "basic_configuration" \in in_doc.keys
                 THEN in_doc.basic_configuration ELSE << >>
        advanced == IF "advanced_configuration" \in in_doc.keys
                    THEN in_doc.advanced_configuration ELSE << >>
        gj == out_migrate.cfg.group_action_jobs
        vj == out_migrate.cfg.validation_jobs
    IN  /\ (/\ out_version.ok
            /\ out_version.v \in {"2.0", "3.0"}
            /\ "coordinates" \in in_doc.keys
            /\ in_doc.coordinates # << >>
            /\ FromString(in_doc.coordinates).ok
            /\ \A i \in DOMAIN basic :
                  /\ basic[i].sun_location \in SunLocations
                  /\ OffsetMeant(basic[i].offset) # -1000
            /\ \A i \in DOMAIN advanced :
                  /\ advanced[i].sun_location \in SunLocations
                  /\ advanced[i].action \in {"set", "clear"}
                  /\ OffsetMeant(advanced[i].offset) # -1000) =>
               /\ out_migrate.ok
               /\ out_migrate.cfg.coordinates = FromString(in_doc.coordinates).v
               /\ DOMAIN gj = DOMAIN basic
               /\ DOMAIN vj = DOMAIN advanced
               /\ \A i \in DOMAIN basic :
                     gj[i] = [group_action_id |-> basic[i].group_action_id,
                              sun_location |-> basic[i].sun_location,
                              offset |-> OffsetMeant(basic[i].offset)]
               /\ \A i \in DOMAIN advanced :
                     vj[i] = [action |-> advanced[i].action,
                              bit_id |-> advanced[i].bit_id,
                              sun_location |-> advanced[i].sun_location,
                              offset |-> OffsetMeant(advanced[i].offset)]
        /\ (out_version.ok /\ out_version.v = "2.0" /\ out_migrate.ok) =>
               out_migrate = MigrateV3(Tagged(in_doc, "3.0"))

\* A document detected as 2.0 by its two lists was migrated: four automations, the
\* last with the offset "-20", and a validation job whose offset was null.
C12_Witness ==
    /\ out_migrate.ok
    /\ "version" \notin in_doc.keys
    /\ out_version.v = "2.0"
    /\ Len(in_doc.basic_configuration) = 4
    /\ in_doc.basic_configuration[4].offset = StrV(<< "-", "2", "0" >>)
    /\ out_migrate.cfg.group_action_jobs[4].offset = -20
    /\ in_doc.advanced_configuration[1].offset = NoneV
    /\ out_migrate.cfg.validation_jobs[1].offset = 0

\* C13: when the document has a `version` field its value alone decides: 1.0, 2.0
\* or 3.0 is the detected version, whatever other fields the document has, and any
\* other value is an error; without the field the document is 2.0 exactly when it
\* has both keys basic_configuration and advanced_configuration, and 1.0 otherwise.
C13_VersionDetection ==
    out_version # NoVersion =>
        IF "version" \in in_doc.keys
        THEN IF in_doc.version \in {"1.0", "2.0", "3.0"}
             THEN out_version.ok /\ out_version.v = in_doc.version
             ELSE ~out_version.ok
        ELSE /\ out_version.ok
             /\ out_version.v = "2.0" <=>
                    /\ "basic_configuration" \in in_doc.keys
                    /\ "advanced_configuration" \in in_doc.keys
             /\ out_version.v = "1.0" <=>
                    \/ "basic_configuration" \notin in_doc.keys
                    \/ "advanced_configuration" \notin in_doc.keys

\* Detection ran on a document tagged 1.0 that has both lists, one of them not
\* empty: the tag decided.
C13_Witness ==
    /\ out_version.ok
    /\ "version" \in in_doc.keys
    /\ {"basic_configuration", "advanced_configuration"} \subseteq in_doc.keys
    /\ in_doc.advanced_configuration # << >>
    /\ out_version.v = "1.0"

\* The integer an id of a document stands for: the number itself or the number a
\* numeral spells; -1000 for a string that spells no number and for null.
IdMeant(id) ==
    CASE id.t = "int" -> id.i
      [] id.t = "none" -> -1000
      [] id.s = << "5" >> -> 5
      [] id.s = << "7" >> -> 7
      [] id.s = << "1", "2" >> -> 12
      [] id.s = << "-", "3" >> -> -3
      [] OTHER -> -1000

\* C14: every Configuration returned by parse has only integer ids >= 0 (an id
\* given as a numeral being that number), only sun locations among the nine
\* tokens, and the version tag 3.0; and parse fails, returning and storing no
\* Configuration, when an id of a 2.0/3.0 document's items is a string that spells
\* no number or is negative, when a sun location of its items is not recognized,
\* or when a 1.0 document with a role in use has a negative automation id.
C14_ParsedConfigurationIsValid ==
    LET lists == out_version.ok /\ out_version.v \in {"2.0", "3.0"}
        basic == IF lists /\ "basic_configuration" \in in_doc.keys
                 THEN in_doc.basic_configuration ELSE << >>
        advanced == IF lists /\ "advanced_configuration" \in in_doc.keys
                    THEN in_doc.advanced_configuration ELSE << >>
        gj == out_parse.cfg.group_action_jobs
        vj == out_parse.cfg.validation_jobs
        roleInUse == \E f \in {"horizon_bit", "civil_bit", "nautical_bit",
                                "astronomical_bit", "bright_bit"} :
                        f \in in_doc.keys /\ in_doc[f] >= 0
    IN  /\ out_parse.ok =>
              /\ out_parse.cfg.version = "3.0"
              /\ \A k \in DOMAIN gj :
                    /\ gj[k].group_action_id \in Nat
                    /\ gj[k].sun_location \in SunLocations
              /\ \A k \in DOMAIN vj :
                    /\ vj[k].bit_id \in Nat
                    /\ vj[k].sun_location \in SunLocations
              /\ lists =>
                    /\ \A k \in DOMAIN basic :
                          gj[k].group_action_id = IdMeant(basic[k].group_action_id)
                    /\ \A k \in DOMAIN advanced :
                          vj[k].bit_id = IdMeant(advanced[k].bit_id)
        /\ (/\ out_parse # NoOutcome
            /\ \/ \E k \in DOMAIN basic :
                      \/ IdMeant(basic[k].group_action_id) < 0
                      \/ basic[k].sun_location \notin SunLocations
               \/ \E k \in DOMAIN advanced :
                      \/ IdMeant(advanced[k].bit_id) < 0
                      \/ advanced[k].sun_location \notin SunLocations
               \/ /\ out_version.ok
                  /\ out_version.v = "1.0"
                  /\ roleInUse
                  /\ ~("group_action" \in in_doc.keys /\ in_doc.group_action >= 0)) =>
               /\ ~out_parse.ok
               /\ out_parse.cfg = NoConfig
               /\ factory_config = parsed_config

\* A document with the automation id "5" and the bit id 7 was parsed: the
\* Configuration returned holds the integers 5 and 7.
C14_Witness ==
    /\ out_parse.ok
    /\ out_version.v = "3.0"
    /\ Len(in_doc.basic_configuration) = 4
    /\ Len(in_doc.advanced_configuration) = 1
    /\ in_doc.basic_configuration[2].group_action_id = StrV(<< "5" >>)
    /\ out_parse.cfg.group_action_jobs[2].group_action_id = 5
    /\ out_parse.cfg.validation_jobs[1].bit_id = 7
    /\ out_parse.cfg.validation_jobs[1].sun_location = "sunrise"

\* C15: parse detects the version, runs the migration of the detected version and
\* validates what it returned: a document whose `version` field is not 1.0, 2.0
\* or 3.0 fails before any migration ran; a failed migration is the parse's
\* failure; and every successful parse returns the validated outcome of the
\* detected version's migration, tagged 3.0.
C15_DetectMigrateValidate ==
    out_parse # NoOutcome =>
        /\ ("version" \in in_doc.keys /\ in_doc.version \notin {"1.0", "2.0", "3.0"}) =>
              /\ ~out_version.ok
              /\ out_migrate = NoOutcome
              /\ ~out_parse.ok
              /\ out_parse.cfg = NoConfig
        /\ out_version.ok =>
              /\ out_version.v = "1.0" => out_migrate = MigrateV1(in_doc)
              /\ out_version.v = "2.0" => out_migrate = MigrateV2(in_doc)
              /\ out_version.v = "3.0" => out_migrate = MigrateV3(in_doc)
              /\ ~out_migrate.ok => out_parse = out_migrate
              /\ out_migrate.ok => out_parse = VerifyConfiguration(out_migrate.cfg)
        /\ out_parse.ok =>
              /\ out_version.ok
              /\ out_migrate.ok
              /\ out_parse.cfg.version = "3.0"

\* A document tagged 4.0 was handed to parse: the detection raised and no migration
\* ran.
C15_Witness ==
    /\ out_parse # NoOutcome
    /\ "version" \in in_doc.keys
    /\ in_doc.version = "4.0"
    /\ in_doc.advanced_configuration # << >>
    /\ out_version.err = "ValueError"
    /\ out_migrate = NoOutcome
    /\ ~out_parse.ok

\* C16: for a document of any of the three versions that has no coordinates (the
\* key is missing or its text is empty) the migration fails with the plugin's
\* error and produces no Configuration, and so does the parse; hence a migrated
\* Configuration with coordinates (0, 0) comes only from a document whose
\* coordinates spell it.
C16_NoCoordinatesNoMigration ==
    out_parse # NoOutcome =>
        /\ (/\ out_version.ok
            /\ "coordinates" \notin in_doc.keys \/ in_doc.coordinates = << >>) =>
               /\ out_version.v \in {"1.0", "2.0", "3.0"}
               /\ ~out_migrate.ok
               /\ out_migrate.err = "ValueError"
               /\ out_migrate.cfg = NoConfig
               /\ ~out_parse.ok
               /\ out_parse.cfg = NoConfig
               /\ factory_config = parsed_config
        /\ (/\ out_migrate.ok
            /\ out_migrate.cfg.coordinates = [latitude |-> [m |-> 0, e |-> 0],
                                              longitude |-> [m |-> 0, e |-> 0]]) =>
               /\ "coordinates" \in in_doc.keys
               /\ in_doc.coordinates # << >>
               /\ FromString(in_doc.coordinates).v = out_migrate.cfg.coordinates

\* A 3.0 document with jobs and without the coordinates key was handed to parse,
\* and its migration raised.
C16_Witness ==
    /\ out_parse # NoOutcome
    /\ out_version.v = "3.0"
    /\ "coordinates" \notin in_doc.keys
    /\ in_doc.basic_configuration # << >>
    /\ ~out_migrate.ok
    /\ out_migrate.err = "ValueError"

PositionsOf(entries, task, loc, data) ==
    { j \in DOMAIN entries :
        /\ entries[j].task = task
        /\ entries[j].data = data
        /\ entries[j].source.sun_location[2] = loc }

\* C19: in a freshly built plan, a validation-bit action and an automation of the
\* index whose fire times are the same (and not before `now`) are in the same
\* entry list, the bit action before the automation; and two automations of one
\* sun location with the same fire time are in the same list in the index's order.
C19_SameFireTimeSameListBitsFirst ==
    [][PlanStored =>
        /\ \A kb \in DOMAIN bits, kg \in DOMAIN group_actions :
              \A ib \in DOMAIN bits[kb], ig \in DOMAIN group_actions[kg] :
                 LET b == bits[kb][ib]
                     g == group_actions[kg][ig]
                     evb == req.results[FieldMap[kb[2]]]
                     evg == req.results[FieldMap[kg[2]]]
                     ft == evg.t + g.offset * 60
                     entries == IndexGet(execution_plan', ft)
                 IN  (/\ evb.kind = "time"
                      /\ evg.kind = "time"
                      /\ evb.t + b.offset * 60 = ft
                      /\ ft >= now) =>
                        \E i \in PositionsOf(entries, "bit", kb[2],
                                              [action |-> b.action, bit_id |-> b.bit_id]) :
                           \E j \in PositionsOf(entries, "group_action", kg[2],
                                                 [group_action_id |-> g.group_action_id]) :
                              i < j
        /\ \A kg \in DOMAIN group_actions : \A i1, i2 \in DOMAIN group_actions[kg] :
              LET g1 == group_actions[kg][i1]
                  g2 == group_actions[kg][i2]
                  ev == req.results[FieldMap[kg[2]]]
                  ft == ev.t + g1.offset * 60
                  entries == IndexGet(execution_plan', ft)
              IN  (/\ ev.kind = "time"
                   /\ i1 < i2
                   /\ g1.offset = g2.offset
                   /\ ft >= now) =>
                     \E p1 \in PositionsOf(entries, "group_action", kg[2],
                                            [group_action_id |-> g1.group_action_id]) :
                        \E p2 \in PositionsOf(entries, "group_action", kg[2],
                                               [group_action_id |-> g2.group_action_id]) :
                           p1 < p2
    ]_vars

\* The elements of a set, one after the other, in some fixed order.
RECURSIVE Listed(_)
Listed(S) ==
    IF S = {} THEN << >>
    ELSE LET x == CHOOSE y \in S : TRUE
         IN  << x >> \o Listed(S \ {x})

\* One of the orders in which the set of sun locations can be iterated.
OneOrder(ga, bi) == Listed(DOMAIN ga \cup DOMAIN bi)

\* C20: two builds with the same `now`, the same timestamps and the same index
\* store the same plan, with the same fire times and the same entry list under
\* each, whatever the order in which the set of sun locations is iterated: every
\* build stores the plan that the build iterating in one fixed order stores.
C20_PlanIndependentOfIterationOrder ==
    [][PlanStored =>
        execution_plan' = BuildPlan(OneOrder(group_actions, bits), now, req.results,
                                    group_actions, bits)
    ]_vars

\* The dispatches of the scan being made that did not succeed.
Failures == { r \in dispatched' : r.result # "success" }

\* C21: when a do_basic_action call fails in a scan (a reply without success, or
\* an exception), every other entry of the same list and of every other due fire
\* time is still dispatched, the loop goes on to its normal wait for the next
\* action, and the failed entry leaves the plan with its fire time like any other:
\* no later scan of this plan can find it.
C21_DispatchFailureIsContained ==
    [][(Scanned /\ Failures # {}) =>
        /\ \A d \in DueDates(execution_plan, now) : \A k \in DOMAIN execution_plan[d] :
              \E r \in dispatched' :
                 /\ r.date = d
                 /\ r.pos = k
                 /\ r.result = DoBasicAction(gateway, execution_plan[d][k])
        /\ \A r \in Failures : r.date \notin DOMAIN execution_plan'
        /\ pc' = "clear"
        /\ sleep_until' = WakeTime(clock, NextActionDate(execution_plan, now), now)
        /\ \A d \in DOMAIN execution_plan' :
              d \in DOMAIN execution_plan /\ execution_plan'[d] = execution_plan[d]
    ]_vars

\* Automation 3 was refused at 23:30:06, first of its list, and automation 5 after
\* it was called all the same.
C21_Witness ==
    /\ pc = "clear"
    /\ gateway = GatewayRefusing
    /\ \E r \in dispatched :
          /\ r.date = 85800 /\ r.pos = 1 /\ r.at = 85806
          /\ r.entry.data = [group_action_id |-> 3]
          /\ r.result = "refused"
    /\ \E r \in dispatched :
          /\ r.date = 85800 /\ r.pos > 1
          /\ r.entry.data = [group_action_id |-> 5]
          /\ r.result = "success"
    /\ 85800 \notin DOMAIN execution_plan

\* x is a number (not None) with at most six decimals.
SixDecimal(x) == x.e >= 0 /\ x.e <= 6

\* C22: a Coordinates value whose latitude and longitude have at most six decimals
\* (positive, negative or zero), formatted with str() and parsed back with
\* from_string, comes back equal.
C22_StrFromStringRoundTrip ==
    (c_pc = "done" /\ c_value # NoCoordinates
        /\ SixDecimal(c_value.latitude) /\ SixDecimal(c_value.longitude))
    => /\ c_parsed.ok
       /\ c_parsed.v = c_value

\* 51.06463, -3.737539 went through the text 51.064630;-3.737539.
C22_Witness ==
    /\ c_pc = "done"
    /\ c_value = Coordinates(Dec(5106463, 5), Dec(-3737539, 6))
    /\ c_text = << "5", "1", ".", "0", "6", "4", "6", "3", "0", ";",
                   "-", "3", ".", "7", "3", "7", "5", "3", "9" >>
    /\ c_parsed.ok
    /\ c_parsed.v = c_value

\* s is a number, one separator character, and a number, with nothing else.
ExactShape(s) ==
    \E k \in 2..(Len(s) - 1) :
       /\ s[k] \in {";", ",", "/"}
       /\ NumberShape(SubSeq(s, 1, k - 1))
       /\ NumberShape(SubSeq(s, k + 1, Len(s)))

\* s begins with a number and ends with a number, and some separator character
\* stands after the first and before the second; anything may stand around it.
LooseShape(s) ==
    \E a \in 1..Len(s), q \in 1..Len(s) :
       /\ NumberShape(SubSeq(s, 1, a))
       /\ NumberShape(SubSeq(s, q, Len(s)))
       /\ \E k \in (a + 1)..(q - 1) : s[k] \in {";", ",", "/"}

C23_ExportParseRoundTrip ==
    /\ out_export # NoExport =>
          /\ out_export.keys = {"version", "coordinates", "basic_configuration",
                                "advanced_configuration"}
          /\ out_export.version = "3.0"
          /\ Len(out_export.basic_configuration) = Len(out_parse.cfg.group_action_jobs)
          /\ Len(out_export.advanced_configuration) = Len(out_parse.cfg.validation_jobs)
    /\ ( /\ out_reparse # NoOutcome
         /\ SixDecimal(out_parse.cfg.coordinates.latitude)
         /\ SixDecimal(out_parse.cfg.coordinates.longitude) )
       => /\ out_reparse.ok
          /\ out_reparse.cfg = out_parse.cfg
          /\ out_reparse.cfg.version = "3.0"
          /\ factory_config = out_parse.cfg

\* A 1.0 document with two roles and south-west coordinates came back equal, its
\* four validation jobs and four automation jobs included.
C23_Witness ==
    /\ in_doc = DocV1(CoordsSouthWest, << 2, -1, -1, -1, 3 >>, 60, 4)
    /\ out_export.coordinates = CoordsSouthWest
    /\ out_reparse.ok
    /\ out_reparse.cfg = out_parse.cfg
    /\ Len(out_reparse.cfg.validation_jobs) = 4
    /\ Len(out_reparse.cfg.group_action_jobs) = 4
    /\ out_reparse.cfg.coordinates = Coordinates(Dec(-33924869, 6), Dec(-1, 6))

\* The fire times of the plan more than 5 minutes after `now`.
FarAhead == { d \in DOMAIN execution_plan : d - now > 300 }

\* The nearest of them, or the start of tomorrow when there is none.
Anchor ==
    IF FarAhead = {} THEN ((now \div 86400) + 1) * 86400
    ELSE CHOOSE d \in FarAhead : \A x \in FarAhead : d <= x

\* C25: in every scan the deadline of the next wait is 5 s after the nearest fire
\* time more than 5 minutes ahead of `now`, or 5 s after the start of tomorrow when
\* the plan has no such fire time or is empty; it is later than that only by the
\* time the iteration spent in retry delays, which is none on a wake that finds its
\* plan present; and every fire time more than 5 minutes ahead stays in the plan
\* with its entries unchanged.
C25_NextDeadlineIsNearestFarEntry ==
    [][Scanned =>
        /\ pc' = "clear"
        /\ sleep_until' = Anchor + 5 + (clock - now)
        /\ ~iter.built => clock = now
        /\ fetches <= 1 => clock = now
        /\ \A d \in FarAhead :
              d \in DOMAIN execution_plan' /\ execution_plan'[d] = execution_plan[d]
    ]_vars

\* A late wake at 23:43:26 found 23:30:00 more than 5 minutes behind and the two
\* other fire times due: the loop waits for tomorrow.
C25_Witness ==
    /\ pc = "clear"
    /\ ~iter.built
    /\ iter.scanned
    /\ now = 86206
    /\ DOMAIN execution_plan = {85800}
    /\ sleep_until = 86405

\* The fire times of the plan more than 5 minutes before `now`.
LongPast == { d \in DOMAIN execution_plan : now - d > 300 }

\* A step of a plan build that stores a plan: a failed attempt, or the success.
Rebuilt == pc \in {"request", "plan"} /\ pc' # pc

\* C26: a scan neither dispatches nor removes nor alters a fire time that is more
\* than 5 minutes behind `now`, and does not wait for it; a plan holding only such
\* fire times is left whole and the loop waits for tomorrow; and no step other
\* than a scan or a rebuild changes the plan, so such an entry stays until the next
\* rebuild.
C26_LongPastEntryStaysUntilRebuild ==
    [][/\ Scanned =>
           /\ \A d \in LongPast :
                 /\ d \in DOMAIN execution_plan'
                 /\ execution_plan'[d] = execution_plan[d]
                 /\ \A r \in dispatched' : r.date # d
                 /\ sleep_until' # d + 5 + (clock - now)
           /\ (LongPast # {} /\ LongPast = DOMAIN execution_plan) =>
                 /\ execution_plan' = execution_plan
                 /\ dispatched' = {}
                 /\ pc' = "clear"
                 /\ sleep_until' = ((now \div 86400) + 1) * 86400 + 5 + (clock - now)
       /\ execution_plan' # execution_plan => Scanned \/ Rebuilt
    ]_vars

\* A wake at 23:43:26 found the three automations of 23:30:00 alone in the plan,
\* more than 5 minutes late: none was run, and the loop waits for tomorrow with
\* them still in the plan.
C26_Witness ==
    /\ pc = "wait"
    /\ iter.scanned
    /\ now = 86206
    /\ DOMAIN execution_plan = {85800}
    /\ Len(execution_plan[85800]) = 3
    /\ dispatched = {}
    /\ sleep_until = 86405

\* An entry under fire time d that this build computes: an automation of the index
\* as it stands, at a location whose time the response in hand gives, d being that
\* time plus the offset and not before `now`.
ComputedNow(d, e) ==
    /\ e.task = "group_action"
    /\ d >= now
    /\ \E key \in DOMAIN group_actions : \E k \in DOMAIN group_actions[key] :
          /\ e.data = [group_action_id |-> group_actions[key][k].group_action_id]
          /\ e.source.sun_location[2] = key[2]
          /\ e.source.offset = group_actions[key][k].offset
          /\ req.results[FieldMap[key[2]]].kind = "time"
          /\ d = req.results[FieldMap[key[2]]].t + group_actions[key][k].offset * 60

\* C27: the plan a successful build stores holds only entries that build computed
\* from its own response and index, whatever the plan held before; a failed
\* attempt leaves the plan empty; and every other step that changes the plan is a
\* scan, which only removes the fire times it dispatched and adds or alters none.
C27_PlanIsNeverMerged ==
    [][/\ PlanStored =>
           \A d \in DOMAIN execution_plan' : \A j \in DOMAIN execution_plan'[d] :
              ComputedNow(d, execution_plan'[d][j])
       /\ (pc = "request" /\ pc' # "request" /\ pc' # "plan") => execution_plan' = EmptyPlan
       /\ (pc = "request" /\ pc' = "request" /\ fetches' # fetches) =>
              execution_plan' = EmptyPlan
       /\ (execution_plan' # execution_plan /\ ~Rebuilt) =>
              /\ Scanned
              /\ DOMAIN execution_plan' \subseteq DOMAIN execution_plan
              /\ \A d \in DOMAIN execution_plan' : execution_plan'[d] = execution_plan[d]
              /\ DOMAIN execution_plan \ DOMAIN execution_plan'
                    = { r.date : r \in dispatched' }
    ]_vars

\* The build of the next day replaced a plan that still held 23:30:00 of the day
\* before: the new plan has the next day's fire times only.
C27_Witness ==
    /\ pc = "print"
    /\ iter.built
    /\ now > 86400
    /\ DOMAIN execution_plan # {}
    /\ \A d \in DOMAIN execution_plan : d > 86400
    /\ n_advance = 2
    /\ \E r \in dispatched : r.at = 86206

\* Plans p and q have the same fire times and, under each, the same entries as
\* many times.
SameEntries(p, q) ==
    /\ DOMAIN p = DOMAIN q
    /\ \A d \in DOMAIN p :
          /\ Len(p[d]) = Len(q[d])
          /\ \A e \in Range(p[d]) \cup Range(q[d]) :
                Cardinality({ j \in DOMAIN p[d] : p[d][j] = e })
                    = Cardinality({ j \in DOMAIN q[d] : q[d][j] = e })

\* C28: the attempt whose request succeeds ends the build: the step that follows
\* the response stores the plan computed from that response (its fire times and
\* the entries under each), makes no request and no delay, and leaves the attempt
\* loop, after none, one or four failed attempts, each of which had left the plan
\* empty; and no request is made outside a build's attempt loop.
C28_FirstSuccessEndsTheBuild ==
    [][/\ (pc = "plan" /\ pc' # "plan") =>
           /\ pc' = "print"
           /\ fetches' = fetches
           /\ clock' = clock
           /\ SameEntries(execution_plan',
                          BuildPlan(OneOrder(group_actions, bits), now, req.results,
                                    group_actions, bits))
           /\ fetches > 1 => execution_plan = EmptyPlan
           /\ clock = now + 5 * (fetches - 1)
       /\ fetches' # fetches => pc \in {"mark", "request"}
       /\ (pc = "request" /\ pc' = "plan") => fetches' = fetches + 1
    ]_vars

\* The fifth request of a build succeeded after four failures, and its plan is
\* stored: one automation at 23:40:00 and three at 23:50:00.
C28_Witness ==
    /\ pc = "print"
    /\ fetches = 5
    /\ clock = now + 20
    /\ outage = 0
    /\ DOMAIN execution_plan = {85200, 85800}
    /\ Len(execution_plan[85800]) = 3

\* C29: the loop is never still blocked in its wait more than one watchdog period
\* (5 s) after the deadline, and every wait whose deadline lies at least one
\* period before the end of the counted time ends, with no reconfiguration at all.
C29_WatchdogEndsEveryWait ==
    /\ [](pc = "wait" /\ ~sleeper => clock <= sleep_until + 5)
    /\ (pc = "wait" /\ sleep_until + 5 <= MaxClock) ~> (pc = "top")

\* The loop has waited up to the fifth second after its deadline of 23:50:05 and
\* the watchdog is about to raise the signal.
C29_Witness ==
    /\ pc = "wait"
    /\ ~sleeper
    /\ sleep_until = 85805
    /\ clock = 85810
    /\ wd_pc = "set"

\* The coordinates and the two indexes are those of one Configuration: the one
\* parsed from some document the plugin was constructed or reconfigured with.
FromOneConfiguration(lat, long, ga, bi) ==
    \E d \in InitDocs \cup ReconfigDocs :
       LET out == ParseConfiguration(d)
       IN  /\ out.ok
           /\ lat = out.cfg.coordinates.latitude
           /\ long = out.cfg.coordinates.longitude
           /\ ga = NewGroupActions(EmptyIndex, out.cfg)
           /\ bi = NewBits(EmptyIndex, out.cfg)

\* C30: every plan that is stored was computed from a response requested for the
\* latitude and longitude of one Configuration and from the group-action index and
\* the bit index of that same Configuration.
C30_BuildUsesOneConfiguration ==
    [][PlanStored => FromOneConfiguration(req.latitude, req.longitude, group_actions, bits)
    ]_vars

\* C31: the watchdog raises the signal on a blocked wait only once that wait's own
\* deadline has elapsed: whenever its set() ends a wait, the clock is past the
\* deadline the waiting loop stored.
C31_WatchdogEndsOnlyElapsedWaits ==
    [][(wd_pc = "set" /\ wd_pc' = "check" /\ pc = "wait" /\ ~sleeper) =>
          sleep_until < clock
    ]_vars

\* The step of a plan build that puts another plan in the place of the stored one.
Replaced == pc \in {"request", "plan"} /\ execution_plan' # execution_plan

\* C32: with no reconfiguration and every wake less than 5 minutes after its
\* deadline, every entry of a plan that a build replaces has been dispatched:
\* no entry a build placed in the plan is dropped by the next day's rebuild.
C32_EveryEntryDispatchedBeforeRebuild ==
    [][Replaced =>
          \A d \in DOMAIN execution_plan : \A k \in DOMAIN execution_plan[d] :
             << d, execution_plan[d][k] >> \in history.fired
    ]_vars

\* C33: with no reconfiguration, a plan build is started at most once for a
\* calendar day and no (fire time, entry) pair is dispatched by two scans; and the
\* scan that dispatches a fire time's entries removes that fire time from the plan,
\* whatever the calls returned or raised.
C33_BuiltOncePerDayDispatchedOnce ==
    /\ [](history.rebuilt = {} /\ history.refired = {})
    /\ [][Scanned =>
             /\ \A r \in dispatched' : r.date \notin DOMAIN execution_plan'
             /\ Pairs(dispatched') \cap history.fired = {}
       ]_vars

\* On the second day built, a scan dispatched that day's entries, one of them
\* refused by the collaborator, after the first day's entries had been dispatched.
C33_Witness ==
    /\ Cardinality(history.built) = 2
    /\ \E r \in dispatched : r.date > 2 * 86400 - 1200 /\ r.result = "refused"
    /\ \E f \in history.fired : f[1] < 86400
    /\ \A r \in dispatched : r.date \notin DOMAIN execution_plan

\* C34: within one calendar day, whatever the wakes and reconfigurations, no (fire
\* time, entry) pair that a scan has dispatched is dispatched again by a later
\* scan.
C34_NoSecondDispatchAfterReconfiguration ==
    \A f \in history.refired : f[1] \div 86400 # now \div 86400

IndexedAt(index, loc) ==
    IF \E key \in DOMAIN index : key[2] = loc
    THEN index[CHOOSE key \in DOMAIN index : key[2] = loc]
    ELSE << >>

\* The jobs of a list anchored to a sun location, in their configured order.
JobsAt(jobs, loc) == SelectSeq(jobs, LAMBDA j : j.sun_location = loc)

\* C3: after any successful configuration load (no load in progress), each index
\* holds for every sun location exactly the current Configuration's jobs anchored
\* there, in configured order, and nothing of an earlier Configuration.
C3_IndexHoldsExactlyTheConfiguration ==
    (cfg_pc = "idle" /\ pytz_ok) =>
        \A loc \in SunLocations :
            /\ IndexedAt(group_actions, loc) =
                  [k \in DOMAIN JobsAt(parsed_config.group_action_jobs, loc) |->
                      LET j == JobsAt(parsed_config.group_action_jobs, loc)[k]
                      IN  [group_action_id |-> j.group_action_id, offset |-> j.offset]]
            /\ IndexedAt(bits, loc) =
                  [k \in DOMAIN JobsAt(parsed_config.validation_jobs, loc) |->
                      LET j == JobsAt(parsed_config.validation_jobs, loc)[k]
                      IN  [bit_id |-> j.bit_id, action |-> j.action, offset |-> j.offset]]

\* C4 (its clause on configurations without jobs): a loop iteration that begins
\* while the current Configuration has no group-action job and no validation job,
\* and no load is in progress, only waits with a deadline 30 s ahead: it makes no
\* request, builds no plan and dispatches nothing.
C4_NoJobsMeansDisabled ==
    [][(/\ pc = "top"
        /\ pc' # "top"
        /\ pytz_ok
        /\ cfg_pc = "idle"
        /\ parsed_config.group_action_jobs = << >>
        /\ parsed_config.validation_jobs = << >>) =>
            /\ pc' = "clear"
            /\ sleep_until' = clock + 30
            /\ UNCHANGED << execution_plan, fetches, dispatched, last_request_date >>
    ]_vars

\* C6 (its first clause): the first iteration that begins after a reconfiguration
\* completed, if it gets to scan the plan, has fetched and rebuilt the plan first.
C6_FirstIterationAfterReconfigurationRebuilds ==
    (iter.first /\ iter.scanned) => iter.built

\* C7: the signal raised by a completed reconfiguration is never lost: the run loop
\* is never blocked in its wait, the signal clear and the deadline still ahead,
\* when a reconfiguration completed after the last iteration began.
C7_ReconfigurationSignalNeverLost ==
    ~(/\ pc = "wait"
      /\ ~sleeper
      /\ wake_pending
      /\ clock <= sleep_until)

\* C8: the scheduler loop never stops.
C8_LoopNeverStops == pc # "dead"

====
